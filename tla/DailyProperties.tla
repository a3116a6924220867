-------------------------- MODULE DailyProperties ---------------------------
(***************************************************************************)
(* What the daily operation promises.                                      *)
(***************************************************************************)
EXTENDS DailyOperation

Label ==
  {"start", "update", "session", "gate", "pin", "sessions",
   "formed", "closes", "bind", "record", "formations", "outcomes",
   "maturities", "pairs", "target", "bindOutcome", "qualify", "outcome",
   "lifecycle", "trade", "scanner", "report", "exit", "left"}

JobType ==
  [ stage : {"none", "integrity", "forward", "lifecycle", "scanner"},
    failed : BOOLEAN, todo : SUBSET Security, batch : Batch \cup {NoBatch},
    pin : [Security -> History] \cup {<<>>}, latest : 0..LastSession,
    formed : SUBSET Session, known : SUBSET Pair, due : SUBSET Pair,
    evidence : Evidence \cup {Missing} ]

\* Type correctness of the market, the ledger, the runs and their history.
DailyTypeOK ==
  /\ today \in Session /\ published \in Session
  /\ restated \in [Security -> Scale]
  /\ rows \in [Security -> History] /\ logged \in [Security -> History]
  /\ blocks \in [Security -> SUBSET Block]
  /\ formation \in [Session -> Evidence \cup {Missing}]
  /\ matured \subseteq Pair
  /\ outcome \in [Pair -> Evidence \cup {Missing}]
  /\ gaps \subseteq Session
  /\ pc \in [Run -> Label]
  /\ job \in [Run -> JobType]
  /\ skips \in [Run -> SUBSET Skippable]
  /\ status \in [Run -> Terminal \cup {"none", "RUNNING"}]
  /\ acted \subseteq Session
  /\ faults \in 0..MaxFaults

\* Every forward return that is averaged divides two closes of one price scale,
\* for the stock and for the benchmark: a formation or an outcome that was read
\* while its security was being rebased, or before a rebase the other has seen,
\* is refused or left out (run_forward_validation_daily with
\* MarketBindingSession.bind and _forward_protocol_presentation).
IncludedOutcomesUseOneBasis ==
  \A pair \in Pair, stock \in Stock :
    Included(pair, stock) =>
      \A sec \in {stock, Benchmark} :
        outcome[pair].closes[sec] = formation[pair[1]].closes[sec]

\* A run recorded SUCCESS with all its stages has done the work of the session
\* it validated, whatever other runs did meanwhile and wherever an earlier run
\* died: unless it was told to skip the lifecycle the paper account has traded,
\* and unless it was told to skip the update its sessions are formed or audited
\* and the outcomes that were due are there (DailyPipeline.run, run_daily.main).
ReportedSuccessMeansDone ==
  \A r \in Run :
    (status[r] = "SUCCESS" /\ steps[r] = [last |-> "scanner", ok |-> TRUE]) =>
      LET s == claim[r].session IN
      /\ ~Skips(r, "lifecycle") => \E t \in acted : t >= s
      /\ ~Skips(r, "update") =>
           /\ \A m \in Start + 1 .. s : m \in Formed \cup gaps
           /\ Due(claim[r].formed, s) \subseteq Outcomes
=============================================================================
