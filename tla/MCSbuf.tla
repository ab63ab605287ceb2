------------------------------- MODULE MCSbuf -------------------------------
(***************************************************************************)
(* Three workers, a buffer of two slots, a descriptor for each place that  *)
(* can hold one, and enough connections for both indices to go round the   *)
(* buffer more than twice.  Descriptor 3 is the listening one.             *)
(***************************************************************************)
EXTENDS SbufProps

CONSTANTS w1, w2, w3

MCWorkers == {w1, w2, w3}
MCConns   == 4..9
=============================================================================
