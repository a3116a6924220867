SPECIFICATION FairSpec
CONSTANTS
  a = a
  b = b
  p1 = p1
  p2 = p2
  NoBar = NoBar
  Symbol = {a, b}
  Process = {p1}
  InitialCash = 26
  Slip = 2
  Fee = 1
  Tax = 0
  StopAtr = 1
  TargetAtr = 2
  TrailAtr = 2
  MaxHold = 0
  Trailing = TRUE
  Quantity = {1}
  Payload = {1, 3, 12}
  Markets <- TwoSymbols
  LastDay = 3
  MaxSignals = 2
  MaxOrders = 2
  MaxRuns = 2
  MaxUpdates = 0
  MaxCrashes = 1
INVARIANTS
  PaperTypeOK
  AccountsBalance
  HeldHasLifecycle
  SettledAgreesWithOrder
  BoughtAtNextOpen
  RunLeavesNothingDue
PROPERTIES
  ImplementsPaperLedger
  EverySignalSettles
\* every signal is settled and the bounds are reached
CHECK_DEADLOCK FALSE
