\* Overlapping runs up to LastSharedDay, runs one after the other up to LastDay.
SPECIFICATION MCSpec
CONSTANTS
  a = a
  p1 = p1
  p2 = p2
  NoBar = NoBar
  Symbol = {a}
  Process = {p1, p2}
  InitialCash = 26
  Slip = 2
  Fee = 1
  Tax = 0
  StopAtr = 1
  TargetAtr = 2
  TrailAtr = 2
  MaxHold = 0
  Trailing = TRUE
  Quantity = {1}
  Payload = {3}
  Markets <- OneSymbol
  LastDay = 3
  LastSharedDay = 2
  Configuration = {"v1", "v2"}
  MaxSignals = 1
  MaxOrders = 1
  MaxRuns = 2
  MaxUpdates = 1
  MaxCrashes = 1
INVARIANTS
  EventsToldOnce
  CapturedRunIsObserved
SYMMETRY Processes
\* every signal is settled and the bounds are reached
CHECK_DEADLOCK FALSE
