----------------------------- MODULE JobPhases -----------------------------
(***************************************************************************)
(* What the event stream of the job registry promises an observer           *)
(* (packages/jobs/jobs/src/invariant.ts): each job is registered, live until *)
(* its one settlement, and removed after it; what the settlement announced   *)
(* is what the registry reads from then on.  Several jobs may move in one    *)
(* step, because a teardown cancels and drops them together.                 *)
(***************************************************************************)
CONSTANT Jobs

VARIABLES
    phase,      \* unknown (no event yet), live, settled or removed
    verdict     \* the terminal status announced for a job

Open == "open"

Successors == {<<"unknown", "live">>, <<"live", "settled">>, <<"settled", "removed">>}

PhasesInit ==
    /\ phase = [j \in Jobs |-> "unknown"]
    /\ verdict = [j \in Jobs |-> Open]

Moves(j) ==
    /\ <<phase[j], phase'[j]>> \in Successors
    /\ phase'[j] = "settled" \/ verdict'[j] = verdict[j]
    /\ phase'[j] = "settled" => verdict'[j] # Open

Stays(j) == phase'[j] = phase[j] /\ verdict'[j] = verdict[j]

PhasesNext == \A j \in Jobs : Moves(j) \/ Stays(j)

PhasesSpec == PhasesInit /\ [][PhasesNext]_<<phase, verdict>>
=============================================================================
