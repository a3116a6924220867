SPECIFICATION Spec
CONSTANTS
  a = a
  b = b
  p1 = p1
  p2 = p2
  NoBar = NoBar
  Symbol = {a}
  Process = {p1}
  InitialCash = 26
  Slip = 2
  Fee = 1
  Tax = 0
  StopAtr = 1
  TargetAtr = 2
  TrailAtr = 2
  MaxHold = 0
  Trailing = TRUE
  Quantity = {1}
  Payload = {3}
  Markets <- OneSymbol
  LastDay = 2
  MaxSignals = 1
  MaxOrders = 2
  MaxRuns = 2
  MaxUpdates = 0
  MaxCrashes = 0
INVARIANT TrailingComesFromEarlierSession
\* every signal is settled and the bounds are reached
CHECK_DEADLOCK FALSE
