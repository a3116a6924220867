SPECIFICATION Spec
CONSTANTS
  LastSession = 2
  v1 = v1
  v2 = v2
  NoRow = NoRow
  Value = {v1, v2}
  Batch <- RevisionBatches
  MaxVersion = 2
  Proc = {p1, p2}
  NoProc = NoProc
  InitialHistory <- ShortHistories
  MaxJobs = 3
  WriteMayFail = FALSE
  OutOfBandEdit = TRUE
PROPERTIES
  MismatchNeverClaimed
\* every process may be idle for ever once MaxJobs calls were started
CHECK_DEADLOCK FALSE
