-------------------------- MODULE MCEndUserSessions -------------------------
(* Small instances of EndUserSessions; EveryRequestEnds is liveness, so without symmetry. *)
EXTENDS EndUserSessions
=============================================================================
