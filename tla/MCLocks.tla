------------------------------ MODULE MCLocks ------------------------------
(***************************************************************************)
(* A small instance of a lock with condition variables for TLC.            *)
(***************************************************************************)
EXTENDS LocksProps

CONSTANTS t1, t2, t3, t4, c1, c2

MCFour     == {t1, t2, t3, t4}
MCTwoConds == {c1, c2}
=============================================================================
