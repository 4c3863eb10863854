SPECIFICATION Spec
CONSTANTS
  a = a
  b = b
  c = c
  d = d
  e = e
  Names <- MCNames
  Outcomes = {yes, no}
  Marginals <- MCMarginals
  Rows <- MCRows
  MaxWidth = 2
  Traders = {alice, bob}
  Treasury = treasury
  Bets <- MCBets
  Decidable = {b, c, e}
  Grain = 10
  Funds = 3
  TreasuryFunds = 1
  MaxOrders = 2
SYMMETRY Interchangeable
CHECK_DEADLOCK FALSE
INVARIANTS
  TypeOK
  OrdersFollowDecisions
  SettlementIsExact
  BeliefsAreExact
  TradesStayRepresented
