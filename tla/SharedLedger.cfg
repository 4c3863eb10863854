SPECIFICATION SharedSpec
CONSTANTS
  Traders = {alice, bob}
  Amm = amm
  Funder = funder
  Outcomes = {yes, no}
  One = 10
  Cost <- MCCost
  TraderFunds = 15
  FunderFunds = 18
  Budgets = {8, 15}
  MaxTrade = 3
  MaxQ = 4
  MaxTrades = 1
  MaxB = 1
  MaxPaidIn = 24
  OtherParties = {escrow}
  OtherLocks <- BookLocks
  Escrow = escrow
  Prices = {3, 7}
  Sizes = {1}
  MaxOrders = 2
CHECK_DEADLOCK FALSE
INVARIANT
  VenuesConserve
