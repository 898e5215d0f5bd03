---------------------------- MODULE MC_OrderBook ----------------------------
(* Model-checking instance of OrderBook.                                  *)
EXTENDS OrderBook
=============================================================================
