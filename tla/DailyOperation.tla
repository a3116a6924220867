--------------------------- MODULE DailyOperation ----------------------------
(***************************************************************************)
(* The daily operation: DailyPipeline.run over the market, the forward     *)
(* ledger and the paper account, several runs of it at a time, launched    *)
(* directly or by quantctl, with the faults a run meets: a fetch that      *)
(* fails after its retries, Ctrl-C, a killed process.                      *)
(***************************************************************************)
EXTENDS RunHistory

CONSTANTS
  SkipOptions,  \* the sets of stages a run may be told to skip
  MaxFaults     \* bound: failed fetches and stages, interrupts, kills

Skippable == {"update", "lifecycle", "scanner"}

ASSUME SkipAssumption == SkipOptions \subseteq SUBSET Skippable
ASSUME FaultAssumption == MaxFaults \in Nat

VARIABLES
  skips,   \* the stages a run skips: --skip-update, --skip-lifecycle, --skip-scan
  acted,   \* sessions the paper lifecycle has traded on
  claim,   \* history variable: the session a run validated and the formations
           \* in the ledger when it did
  faults

operationVars == <<skips, acted, claim, faults>>
vars == <<marketVars, ledgerVars, procVars, historyVars, operationVars>>

NoClaim == [session |-> 0, formed |-> {}]

Init ==
  /\ MarketInit /\ LedgerInit /\ HistoryInit
  /\ pc = [r \in Run |-> "start"]
  /\ job = [r \in Run |-> Idle]
  /\ skips = [r \in Run |-> {}]
  /\ acted = {}
  /\ claim = [r \in Run |-> NoClaim]
  /\ faults = 0

Steady == UNCHANGED <<marketVars, ledgerVars>>
Skips(r, stage) == stage \in skips[r]

-----------------------------------------------------------------------------
(* Launch. *)

Launch(r, how) ==
  /\ At(r, "start")
  /\ BeginRun(r, how)
  /\ \E skip \in SkipOptions :
       /\ skips' = [skips EXCEPT ![r] = skip]
       /\ Goto(r, "update")
       /\ Set(r, [Idle EXCEPT !.todo = IF "update" \in skip THEN {} ELSE Security])
  /\ UNCHANGED <<acted, claim, faults>>
  /\ Steady

-----------------------------------------------------------------------------
(* Update of the market, the benchmark first. *)

Holds(r) == job[r].batch # NoBatch
Done(r, failed) ==
  Set(r, [job[r] EXCEPT !.todo = @ \ {job[r].batch.sec}, !.batch = NoBatch,
                        !.failed = @ \/ failed])

Fetch(r) ==
  /\ At(r, "update") /\ ~Holds(r)
  /\ \E sec \in job[r].todo :
       /\ Benchmark \in job[r].todo => sec = Benchmark
       /\ Set(r, [job[r] EXCEPT !.batch = Answer(sec)])
  /\ UNCHANGED pc
  /\ Steady

Reconcile(r) ==
  /\ At(r, "update") /\ Holds(r)
  /\ ~job[r].batch.committed
  /\ Settle(job[r].batch.sec)
  /\ UNCHANGED <<pc, job, ledgerVars>>

Decide(r) ==
  /\ At(r, "update") /\ Holds(r)
  /\ LET b == job[r].batch
     IN  /\ ~b.committed
         /\ \/ BlockRevision(b) /\ Done(r, TRUE)
            \/ ConfirmBatch(b) /\ Done(r, FALSE)
            \/ CommitAppend(b) /\ Set(r, [job[r] EXCEPT !.batch.committed = TRUE])
  /\ UNCHANGED <<pc, ledgerVars>>

Finish(r) ==
  /\ At(r, "update") /\ Holds(r)
  /\ job[r].batch.committed
  /\ FinishAppend(job[r].batch) /\ Done(r, FALSE)
  /\ UNCHANGED <<pc, ledgerVars>>

\* The fetch still fails after its retries.
FetchFails(r) ==
  /\ At(r, "update") /\ Holds(r) /\ ~job[r].batch.committed
  /\ Done(r, TRUE)
  /\ UNCHANGED pc
  /\ Steady

UpdateStage(r) ==
  Fetch(r) \/ Reconcile(r) \/ Decide(r) \/ Finish(r)

-----------------------------------------------------------------------------
(* check_market_data_integrity: the provenance gate, then the rows.  The   *)
(* lifecycle and the scanner require it again; they take nothing but PASS. *)

\* An update that is not complete is a failed integrity stage.
Updating(r) == At(r, "update") /\ (Holds(r) \/ job[r].todo # {})
CheckProvenance(r) ==
  /\ At(r, "update") /\ ~Updating(r)
  /\ IF ~job[r].failed /\ MarketProvenance(Security)
       THEN Goto(r, "session") /\ UNCHANGED job
       ELSE Stop(r, "integrity", TRUE)
  /\ UNCHANGED claim
  /\ Steady

\* Every security holds the reference session, and none is ahead of it.
Complete == \A sec \in Security : rows[sec].upto = rows[Benchmark].upto
IsToday == rows[Benchmark].upto = today

\* A complete market of an earlier day ends the run without a failure.
CheckSession(r) ==
  /\ At(r, "session")
  /\ IF Complete /\ IsToday
       THEN /\ Goto(r, IF Skips(r, "update") THEN "lifecycle" ELSE "gate")
            /\ claim' = [claim EXCEPT ![r] = [session |-> today, formed |-> Formed]]
            /\ UNCHANGED job
       ELSE Stop(r, "integrity", ~Complete) /\ UNCHANGED claim
  /\ Steady

\* require_market_data_integrity, before a stage touches its own state.
Required == MarketProvenance(Security) /\ Complete /\ IsToday

\* A skipped stage is a success, and the next one follows.
SkipStage(r) ==
  /\ \/ /\ At(r, "lifecycle") /\ Skips(r, "lifecycle")
        /\ Goto(r, "scanner") /\ UNCHANGED job
     \/ /\ At(r, "scanner") /\ Skips(r, "scanner")
        /\ Stop(r, "scanner", FALSE)
  /\ UNCHANGED claim
  /\ Steady

EnterLifecycle(r) ==
  /\ At(r, "lifecycle") /\ ~Skips(r, "lifecycle")
  /\ IF Required THEN Goto(r, "trade") /\ UNCHANGED job
                 ELSE Stop(r, "lifecycle", TRUE)
  /\ UNCHANGED claim
  /\ Steady

Trade(r) ==
  /\ At(r, "trade")
  /\ acted' = acted \cup {rows[Benchmark].upto}
  /\ Goto(r, "scanner")
  /\ UNCHANGED <<job, claim>>
  /\ Steady

Scan(r) ==
  /\ At(r, "scanner") /\ ~Skips(r, "scanner")
  /\ Stop(r, "scanner", ~Required)
  /\ UNCHANGED claim
  /\ Steady

\* The lifecycle or the scanner raises.
StageFails(r) ==
  /\ \/ At(r, "trade") /\ Stop(r, "lifecycle", TRUE)
     \/ /\ At(r, "scanner") /\ ~Skips(r, "scanner")
        /\ Stop(r, "scanner", TRUE)
  /\ Steady

-----------------------------------------------------------------------------
(* The end of a run, and of its record. *)

Report(r) ==
  /\ At(r, "report")
  /\ RecordSteps(r, job[r].stage, ~job[r].failed)
  /\ Goto(r, "exit")
  /\ UNCHANGED <<job, operationVars>>
  /\ Steady

Return(r) ==
  /\ At(r, "exit")
  /\ Leave(r, IF job[r].failed THEN "error" ELSE "ok")
  /\ Goto(r, "left") /\ Set(r, Idle)
  /\ UNCHANGED operationVars
  /\ Steady

Record(r) ==
  /\ FinishRun(r)
  /\ UNCHANGED <<procVars, operationVars>>
  /\ Steady

Fault(r) ==
  /\ faults < MaxFaults /\ faults' = faults + 1
  /\ UNCHANGED <<skips, acted, claim>>
  /\ \/ FetchFails(r) /\ UNCHANGED historyVars
     \/ StageFails(r) /\ UNCHANGED historyVars
     \/ /\ pc[r] \notin {"start", "left"}
        /\ \E how \in {"interrupted", "killed"} : Leave(r, how)
        /\ Goto(r, "left") /\ Set(r, Idle)
        /\ Steady
     \/ LoseRecorder(r) /\ UNCHANGED procVars /\ Steady

-----------------------------------------------------------------------------
StageStep(r) ==
  \/ /\ \/ UpdateStage(r)
        \/ ForwardStage(r)
     /\ UNCHANGED <<acted, claim>>
  \/ /\ \/ CheckProvenance(r)
        \/ CheckSession(r)
        \/ SkipStage(r)
        \/ EnterLifecycle(r)
        \/ Scan(r)
     /\ UNCHANGED acted
  \/ Trade(r)

RunStep(r) ==
  \/ StageStep(r) /\ UNCHANGED <<historyVars, skips, faults>>
  \/ Report(r)
  \/ Return(r)

\* The operator's reviewed rebases.
Operator ==
  /\ \E sec \in Security :
       \/ CommitRebase(sec)
       \/ /\ Rebasing(sec)
          /\ Settle(sec)
  /\ UNCHANGED <<ledgerVars, procVars, historyVars, operationVars>>

Environment ==
  /\ Publish \/ NextDay \/ \E sec \in Security : Restate(sec)
  /\ UNCHANGED <<ledgerVars, procVars, historyVars, operationVars>>

Next ==
  \/ \E r \in Run :
       \/ \E how \in Launcher : Launch(r, how)
       \/ RunStep(r) \/ Record(r) \/ Fault(r)
  \/ Operator
  \/ Environment

Spec == Init /\ [][Next]_vars
=============================================================================
