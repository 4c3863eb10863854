---------------------------- MODULE MCAmmMarket -----------------------------
(***************************************************************************)
(* Two traders and two outcomes.  A winning token pays 10 credits.  The    *)
(* cost function has the shape of LMSR: One * max(q) plus a premium that   *)
(* shrinks with the imbalance, 10 * b * ln(1 + e^(-d/b)), rounded so that  *)
(* it stays convex and every price positive while the imbalance is within  *)
(* MaxQ, and doubled with b.  In four trades of up to three tokens two     *)
(* opposed traders reach a sell with more profit than the AMM's lock       *)
(* holds: one has sold at a loss, and the other sells.                     *)
(***************************************************************************)
EXTENDS AmmMarket, Sequences, TLC

Premium == <<<<8, 5, 3, 2, 1>>, <<16, 13, 10, 8, 6, 5, 4, 3, 2>>>>

MCCost(liquidity, quantity) ==
  LET high == Max({quantity[o] : o \in Outcomes})
      low  == Min({quantity[o] : o \in Outcomes})
      row  == Premium[liquidity]
  IN  One * high + row[Min({high - low + 1, Len(row)})]

Interchangeable == Permutations(Traders) \cup Permutations(Outcomes)
=============================================================================
