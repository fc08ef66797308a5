-------------------------- MODULE MCStockDispatch --------------------------
(* Small instances of the dispatcher for TLC. *)
EXTENDS StockDispatch

CONSTANTS s1, s2, s3

TwoStocks   == <<s1, s2>>
ThreeStocks == <<s1, s2, s3>>
=============================================================================
