---------------------------- MODULE MCOrderBook -----------------------------
(***************************************************************************)
(* Two traders with the means for a few lots, two price levels that cross  *)
(* each other with improvement, and enough orders to mint, transfer and    *)
(* redeem with a partial fill among them.                                  *)
(***************************************************************************)
EXTENDS OrderBook, TLC

Interchangeable == Permutations(Traders)
=============================================================================
