--------------------------- MODULE MCSharedLedger ---------------------------
(***************************************************************************)
(* Two traders of both venues, two book orders, one trade on the AMM.      *)
(***************************************************************************)
EXTENDS MCAmmMarket, SharedLedger

BookLocks == {<<"limit_order", i>> : i \in 1..MaxOrders}
=============================================================================
