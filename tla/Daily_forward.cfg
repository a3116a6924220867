\* Two overlapping daily runs over the forward ledger, one restatement.
SPECIFICATION MCSpec
CONSTANTS
  a = a
  VNINDEX = VNINDEX
  Stock = {a}
  Benchmark = VNINDEX
  LastSession = 4
  FirstToday = 3
  Overlap = 1
  Restated = {a}
  MaxRestatements = 1
  Start = 1
  Horizon = {1}
  Run = {1, 2}
  SkipOptions = {{}, {"update"}, {"lifecycle"}, {"update", "scanner"}}
  MaxFaults = 1
INVARIANTS
  DailyTypeOK
  IncludedOutcomesUseOneBasis
  ReportedSuccessMeansDone
\* every run may have left for ever
CHECK_DEADLOCK FALSE
