---------------------------- MODULE MCBatchRound -----------------------------
(***************************************************************************)
(* Two markets, both timed, two traders.  A price is one of twelve quanta  *)
(* and reaches its ends three ticks from the middle, so that large orders  *)
(* can stand against each other: 36 against -36 with maxima of 102 and     *)
(* 108 is still over budget after three repricings.  The orders for 6 share *)
(* a round at 10 1/2 quanta and round down.                                *)
(***************************************************************************)
EXTENDS BatchRound, TLC

CONSTANTS ann, bob, tiny, nobody

MCMarkets == 1..2
MCRounds == <<3, 2>>
MCSponsors == <<{nobody}, {ann}>>
MCShared == [target |-> 6, budget |-> 40]
MCRequests ==
  ann :> <<{[target |-> 36, budget |-> 102], MCShared}, {}>> @@
  bob :> <<{[target |-> -36, budget |-> 108], MCShared}, {[target |-> tiny, budget |-> 1]}>>
=============================================================================
