SPECIFICATION Spec
CONSTANTS
  LastSession = 3
  v1 = v1
  v2 = v2
  NoRow = NoRow
  Value = {v1, v2}
  Batch <- ThreeSessionBatches
  MaxVersion = 2
  Proc = {p1}
  NoProc = NoProc
  InitialHistory <- TamperedHistories
  MaxJobs = 3
  WriteMayFail = FALSE
  OutOfBandEdit = TRUE
INVARIANTS
  TamperingIsDetectable
\* every process may be idle for ever once MaxJobs calls were started
CHECK_DEADLOCK FALSE
