SPECIFICATION Spec
CONSTANTS
  m1 = m1
  m2 = m2
  m3 = m3
  ann = ann
  bob = bob
  k1 = k1
  NoKey = NoKey
  Seeds = {m1, m2}
  Created = {m3}
  Accounts = {ann, bob}
  Keys = {k1}
  Requests <- MCRequests
  SeedRows <- MCSeedRows
  SpillLevels = {3}
  Impact <- MCImpact
  RiskLimit = 3
  MaxPosition = 3
  MaxCommands = 3
  MaxRestarts = 1
CHECK_DEADLOCK FALSE
INVARIANTS
  TypeOK
  OutcomesAreRecordedOnce
  AccountsFollowOrders
  PriceDriftsOnlyByRefusal
  JournalTellsAll
  ReadsAgree
PROPERTIES
  SettledStaysSettled
