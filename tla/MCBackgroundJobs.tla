-------------------------- MODULE MCBackgroundJobs --------------------------
(* The instances of BackgroundJobs that TLC checks. *)
EXTENDS BackgroundJobs
=============================================================================
