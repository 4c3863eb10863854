SPECIFICATION Spec
CONSTANTS
  ann = ann
  bob = bob
  tiny = tiny
  nobody = nobody
  Traders = {ann, bob}
  Markets <- MCMarkets
  Timed <- MCMarkets
  Sponsors <- MCSponsors
  Nobody = nobody
  Spread = 3
  NetCap = 18
  Requests <- MCRequests
  Unquotable = tiny
  Funds = 150
  MaxOrders = 3
  MaxRounds <- MCRounds
  MaxCrashes = 1
CHECK_DEADLOCK FALSE
INVARIANTS
  TypeOK
  LocksMatchPending
  EscrowIsCovered
  PublishedRoundsAreSaved
PROPERTIES
  HalvesAreExplained
  DueRoundsClear
