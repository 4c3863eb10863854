SPECIFICATION Spec
CONSTANTS
  Traders = {alice, bob}
  Escrow = escrow
  One = 4
  Prices = {1, 3}
  Sizes = {1, 2}
  Funds = 6
  MaxOrders = 4
SYMMETRY Interchangeable
CHECK_DEADLOCK FALSE
INVARIANTS
  TypeOK
  SetsAreBacked
  RestingOrdersAreSound
PROPERTIES
  PriceTimePriority
  LimitsHonoured
  ImplementsCompleteSets
