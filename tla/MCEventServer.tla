---------------------------- MODULE MCEventServer ----------------------------
(* Instances of EventServer for TLC. *)
EXTENDS EventServerProps, TLC

CONSTANTS c1, c2

MCClients == {c1, c2}
=============================================================================
