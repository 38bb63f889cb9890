-------------------------- MODULE MCSessionRecovery --------------------------
(* A small instance of SessionRecovery: a reply asks for nothing or for two   *)
(* calls.  One call, and the other order, are what is left of it after a cut.  *)
EXTENDS SessionRecovery

MCRequests == {<<>>, <<"c1", "c2">>}
=============================================================================
