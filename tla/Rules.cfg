SPECIFICATION Spec
CONSTANTS
  LastSession = 3
  NoRow = NoRow
  Value = {a, b}
  LastPrice = 4
  Multipliers = {0, 1}
  Limits = {0, 2}
  Configs <- Policies
  LastHeld = 2
  a = a
  b = b
  gap = gap
  raw = raw
  adjusted = adjusted
  op = op
  LastDay = 5
  Content = {a, b, gap}
  Absent = Absent
  Jump <- Jumps
  Basis = {raw, adjusted}
  Unknown = Unknown
  Batches <- Submitted
  Name = {op}
  NoOp = NoOp
  Legacy <- LegacyRows
  MaxReceipts = 4
INVARIANTS
  AdmittedBatchIsStored
  ExitTakesWorstPath
  ExitPriceWasTraded
  ReceiptsDescribeHistory
  PassKeepsOneBasis
  GenerationsFormOneChain
PROPERTIES
  RetryConfirms
  StopNeverFalls
  HistoryGrowsAtEnd
\* a blocked batch is not compared again, a closed position ends, and the
\* operations of the transactional path reach their bound
CHECK_DEADLOCK FALSE
