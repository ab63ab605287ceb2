--------------------------- MODULE MCStockServer ---------------------------
(***************************************************************************)
(* Three workers, so that a reader can wait for a writer while another     *)
(* reader comes; two stocks, so that show can be torn; and a third id that *)
(* is not in stock.txt.                                                    *)
(***************************************************************************)
EXTENDS StockServerProps, TLC

CONSTANTS t1, t2, t3

MCWorkers == {t1, t2, t3}
MCInitial == (1 :> 1) @@ (2 :> 1)
=============================================================================
