SPECIFICATION Spec
CONSTANTS
  Users = {ann}
  Services = {}
  States = {}
  PRs = {pr}
  None = none
  Cap = 1
  LastDay = 1
  MaxAccounts = 1
  MaxKeys = 1
  MaxMarkets = 2
  MaxEdits = 0
  MaxLogins = 1
  MaxRequests = 4
  MaxCrashes = 1
CHECK_DEADLOCK FALSE
INVARIANTS
  RedeliveryIsHarmless
PROPERTIES
  ExpiredMarketsEnd
