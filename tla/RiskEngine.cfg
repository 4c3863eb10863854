SPECIFICATION Spec
CONSTANTS
  Accounts = {a1, a2}
  LockKeys = {k1, k2}
  Amounts = {1, 2}
  Payouts = {0, 3}
  LogCeiling = 3
  LogKeep = 1
  MaxTx = 6
SYMMETRY Interchangeable
CHECK_DEADLOCK FALSE
INVARIANTS
  TypeOK
  FrozenIsSumOfLocks
  LogExplainsBalances
PROPERTIES
  ShownBalancesStay
  OnlyMintsAndSettlementsMoveTheTotal
