SPECIFICATION Spec
CONSTANTS
  Traders = {alice, bob}
  Amm = amm
  Funder = funder
  Outcomes = {yes, no}
  One = 10
  Cost <- MCCost
  TraderFunds = 16
  FunderFunds = 18
  Budgets = {8, 16}
  MaxTrade = 3
  MaxQ = 4
  MaxTrades = 4
  MaxB = 2
  MaxPaidIn = 20
  OtherParties = {}
  OtherLocks = {}
SYMMETRY Interchangeable
CHECK_DEADLOCK FALSE
INVARIANTS
  TypeOK
  CreditsConserved
  PoolCoversEveryOutcome
  IntactAfterFailures
  ResolvePaysWhatWasTraded
  SweepFollowsTheRecord
