SPECIFICATION Spec
CONSTANTS
  LastSession = 2
  v1 = v1
  v2 = v2
  NoRow = NoRow
  Value = {v1, v2}
  Batch <- TwoSessionBatches
  MaxVersion = 2
  Proc = {p1, p2}
  NoProc = NoProc
  InitialHistory <- OneRow
  MaxJobs = 3
  WriteMayFail = TRUE
  OutOfBandEdit = FALSE
INVARIANTS
  NoUnattributedRow
SYMMETRY ProcSymmetry
\* every process may be idle for ever once MaxJobs calls were started
CHECK_DEADLOCK FALSE
