SPECIFICATION Spec
CONSTANTS
  Traders = {alice, bob}
  Amm = amm
  Funder = funder
  Outcomes = {yes, no}
  One = 10
  Cost <- MCCost
  TraderFunds = 15
  FunderFunds = 18
  Budgets = {8, 15}
  MaxTrade = 3
  MaxQ = 4
  MaxTrades = 4
  MaxB = 2
  MaxPaidIn = 24
  OtherParties = {}
  OtherLocks = {}
SYMMETRY Interchangeable
CHECK_DEADLOCK FALSE
INVARIANT
  OverrideNeedsNoReversal
