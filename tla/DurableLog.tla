----------------------------- MODULE DurableLog -----------------------------
(***************************************************************************)
(* What session persistence promises about one stored session               *)
(* (packages/session/session-persistence/src/index.ts, SessionPersistence):  *)
(* events are contiguous from seq 0 and never rewritten, and what a resolved *)
(* flush covered survives every crash.  view is what a reader that opens the *)
(* log now would be given.                                                  *)
(***************************************************************************)
EXTENDS Naturals, Sequences, SequencesExt

VARIABLES
    view,           \* the valid contiguous log, as a reader would see it
    promised        \* the prefix the last resolved flush promised

\* Every event sits at its own sequence number.
Contiguous(log) == \A i \in DOMAIN log : log[i].seq = i

LogInit == view = <<>> /\ promised = <<>>

\* A batch lands behind what is stored.
Extend ==
    /\ IsPrefix(view, view') /\ Contiguous(view')
    /\ UNCHANGED promised

\* A crash, or the repair after it, drops records nobody was promised.
Forget ==
    /\ IsPrefix(view', view) /\ IsPrefix(promised, view')
    /\ UNCHANGED promised

\* A flush resolves.
Promise ==
    /\ IsPrefix(promised, promised') /\ IsPrefix(promised', view)
    /\ UNCHANGED view

LogSpec == LogInit /\ [][Extend \/ Forget \/ Promise]_<<view, promised>>
=============================================================================
