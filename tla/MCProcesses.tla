---------------------------- MODULE MCProcesses ----------------------------
(***************************************************************************)
(* Small instances of the processes for TLC.                               *)
(***************************************************************************)
EXTENDS ProcessesProps

CONSTANTS main, a, b

MCThree    == {main, a, b}
MCStatuses == {-1, 0}
=============================================================================
