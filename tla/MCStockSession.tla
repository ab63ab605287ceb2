--------------------------- MODULE MCStockSession ---------------------------
(***************************************************************************)
(* Two workers and the handler: every kind of overlap is one of two        *)
(* threads.  Two stocks, so that a save can be cut in the middle.          *)
(***************************************************************************)
EXTENDS StockSessionProps, TLC

CONSTANTS t1, t2

MCWorkers  == {t1, t2}
MCSymmetry == Permutations(MCWorkers)
=============================================================================
