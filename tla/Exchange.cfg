SPECIFICATION Spec
CONSTANTS
  Users = {ann, bob}
  Services = {bot}
  States = {state}
  PRs = {}
  None = none
  Cap = 1
  LastDay = 0
  MaxAccounts = 3
  MaxKeys = 3
  MaxMarkets = 1
  MaxEdits = 1
  MaxLogins = 2
  MaxRequests = 4
  MaxCrashes = 1
CHECK_DEADLOCK FALSE
INVARIANTS
  TypeOK
  AccountsAreOwnedOnce
  AnsweredIsSaved
