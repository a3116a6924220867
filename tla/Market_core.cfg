SPECIFICATION MCSpec
CONSTANTS
  LastSession = 2
  v1 = v1
  v2 = v2
  NoRow = NoRow
  Value = {v1, v2}
  Batch <- TwoSessionBatches
  MaxVersion = 2
  Proc = {p1, p2}
  NoProc = NoProc
  InitialHistory <- OneRow
  MaxJobs = 4
  MaxObservedJobs = 3
  WriteMayFail = FALSE
  OutOfBandEdit = FALSE
INVARIANTS
  TypeOK
  OneOpenIntent
  NoUnattributedRow
  SettledMarketIsVersioned
  CommittedChangeIsFinalizable
  OrphanedChangeIsRecoverable
  AppliedRowsStayStored
  AppliedHasNoOpenRevision
  BindingDescribesConsumedRows
  NoSilentDrift
  ReusedVerdictIsCurrent
PROPERTIES
  HistoryRewrittenOnlyByReview
  BlockLiftedOnlyByAgreement
SYMMETRY ProcSymmetry
\* every process may be idle for ever once MaxJobs calls were started
CHECK_DEADLOCK FALSE
