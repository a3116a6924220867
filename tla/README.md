# quant-stock: TLA+ verification project

quant-stock collects daily prices of Vietnamese stocks, derives signals from them, and trades
them on paper. Its operational core is a chain of small SQLite databases written by short-lived
processes (the daily run, updates, operator scripts) that may die at any moment and that no
scheduler keeps apart. This directory models that core in TLA+, checks it with TLC and proves its
most important properties with TLAPS. Every definition follows the Python source; `PROJECT.json`
names the lines each definition stands for.

## 1. The system

### 1.1 Market data (`core/`)

| Component | State | Operations |
|---|---|---|
| Revision admission guard, `core/market_admission.py` | `prices` of `market.db`; its write lock (`BEGIN IMMEDIATE`) | `admit_price_batch`: observe, reuse a receipt or re-admit, lock, settle open intents, supersede, verify, compare (`classify_overlap`), block, or decide, claim, append, finalize |
| Market observation log, `core/market_observation_log.py` | append-only log database: observations, `admission_events`, `symbol_versions`, `applied_sessions`, blocks, `block_resolutions`, reviewed rebases, baseline | one transaction per method: `persist_observation`, `append_event`, `record_intent`, `record_application`, `record_rebase_intent`, `record_rebase`, `resolve_block`, queries |
| Reviewed rebase, `core/market_rebase.py`, `scripts/resolve_market_block.py` | the same two databases | `plan_rebase`, `rebase_symbol`, `recover_rebase`, plain review |
| Evidence binding, `core/evidence_market_binding.py` | bindings of evidence to dataset versions; a qualification cache | `MarketBindingSession` (pin, read, bind), `EvidenceQualifier` (drift, origin, cache) |
| Provenance gate, `core/market_provenance_gate.py` | none: reads the log | verdict whether a downstream stage may run |
| Integrity check, `core/market_data_integrity.py` | none | inspects rows (calendar, OHLC bounds) |
| Updates, `scripts/update_data.py`, `backfill_market_data.py` | none | fetch batches, submit them to admission |
| Scan telemetry and signal database | insert-only records | record a scan |

How they interact: `market.db` and the log are **two files without a common transaction**. An
admission first writes a durable *intent* to the log, commits the rows to `market.db` (which frees
the market lock) and only then records the *application* in the log. A process may die between any
two of those; the next process that takes the market lock settles what it finds. An operator may,
at any time, review a block or request a rebase of it. Evidence producers read the log and the
prices over several connections, so all of this may happen between two of their reads.

### 1.2 Paper trading (`execution/`)

| Component | State | Operations |
|---|---|---|
| Paper store, `execution/persistence.py` | orders, fills, positions, cash, lifecycles, closed trades, pending signals, execution intents | one transaction per method; `save_intent_execution` writes order, fill, whole portfolio, lifecycle and closed trade together; `save_exit_intent` reserves an exit |
| Broker and order path, `paper_broker.py`, `order_manager.py`, `risk_guard.py` | an in-memory copy of the portfolio | validate, fill, reject |
| Signal executor, `signal_executor.py` | none of its own | `queue_signals`, `execute_pending_signals` at the next open, `execute_signals` |
| Lifecycle manager and exit engine, `lifecycle_manager.py`, `exit_engine.py` | lifecycles | resume or create exits; stop, target, time and trailing rules |
| Price updater, `position_updater.py` | none | load the portfolio, mark it, write it |
| Paper provenance and reconciliation | none | read-only |

`scripts/run_paper_lifecycle.py` is one run: with one broker it executes the signals of earlier
sessions at the open of the latest one, with a second broker it evaluates every position on that
session's bar. A broker loads the portfolio when it is built and writes the **whole** of it back
with every fill and at the end. An entry intent `pending_signal:<id>` and a hashed exit intent make
a rerun after a crash find what was already done. No lock keeps two runs apart.

### 1.3 Orchestration and everything else

| Component | State | Operations |
|---|---|---|
| Daily pipeline, `app/daily_pipeline.py`, `scripts/run_daily.py` | none | update, integrity, forward observation, lifecycle and scanner, each behind a stop/continue gate |
| Run history, `quantctl/run_history.py`, `quantctl/operations.py` | runs and their recorded steps | `begin_run`, `record_steps`, `finish_run`, by the run's own process or by the parent that started it |
| Forward ledger, `quantlab/forward/` | formations, maturities, outcomes and audited gaps, append-only | `run_forward_validation_daily`; the averages of `quantctl/forward_evidence.py` read it |
| Prospective portfolio, `quantlab/evidence/prospective_portfolio.py` | one observation per session and configuration, append-only; a baseline per session in the paper store | `capture_prospective_portfolio_evidence`, after a lifecycle run has committed |
| Transactional market data, `quantlab/transactional_market_data.py` and its guard, admission and operation identities | a clone of the price table with receipts, manifests, staged candidates and identities | `commit_price_batch`, `commit_price_batch_shadow`, each one transaction; the production update does not call them |

Runs of the daily operation are separate processes; nothing keeps two of them apart, and an operator
may rebase a security while one is at work. `strategy/`,
`quantlab/features|panels|evaluation|portfolio`, `backtesting/`, `research/` and `analysis/` are
numeric and offline; `manager/`, `dashboard/` and `services/` are user interface, formatting and
network output.

### 1.4 What is hard, and what correctness means

*Admission, log, rebase.* Crashes between the two files; several processes; stale decisions used
after the lock is released; retries; operators acting in between; legacy writers of `market.db`.
Correct means: stored values are never rewritten except by a reviewed rebase; every stored row has
exactly one explanation (baseline, owner, or open intent); the market is what its latest version
says whenever nothing is in flight; whatever a process leaves behind the next one can finish; a
block is lifted only when the data agree again.
*Evidence.* Reads that interleave with writers; cached results. Correct means: a binding describes
the rows that were consumed, and a later change of them is visible.
*Paper trading.* Crash between fill and completion, a second process, reruns on one day. Correct
means: each signal and each exit is executed at most once, cash and positions are the sum of the
fills, limits hold across reruns.
*Pipeline and runs.* Two daily runs interleave, either may die, and a parent may record what its child
did not do. Correct means: a run recorded as a success has done the work of its session that it was
not told to skip.
*Forward and prospective evidence.* Price scales change between formation and outcome, in the middle
of a run's reads; a run may die between a fill and its capture, or be repeated. Correct means: a
return divides closes of one price scale; each fill is told by the observations of one session.
*Transactional market data.* A rollback at any stage, replays, two writers with different rules.
Correct means: history grows at its end, receipts describe it, generations form one chain.

The file `PROJECT.json` lists each such hazard at its line with the properties that cover it.

## 2. Modules

The project has four groups that share no state: the market modules (`Market*`, `ObservationLog`,
`OverlapRules`, `Evidence*`, `VersionedHistory`), the paper modules (`Paper*`, `Exit*`), the daily
operation (`Daily*`, `Forward*`, `RunHistory`) and the transactional path (`Shadow*`). Paper trading
sees of the market only the bars of a session and whether the dataset version has moved since it was
pinned. The daily operation sees of an admission the steps that another process can observe, and of
paper trading the sessions traded.

The modules of the market group speak of **one symbol**: locks are shared by all symbols but rows, versions,
blocks and intents are kept per symbol and never related across symbols, so one symbol with several
processes shows every interaction of its protocol.

| Module | Models |
|---|---|
| `OverlapRules` | `classify_overlap`, `_receipt_matches_market`, `_insert_rows`, the prefix and compatibility rules of a rebase: pure operators |
| `OverlapCheck` | compare, apply, compare again, over every history and batch |
| `ObservationLog` | the log; each operator that primes variables is one transaction |
| `MarketStore` | `market.db`, its lock, process locals, crash, out-of-band edit, settling of open intents |
| `MarketAdmission` | `admit_price_batch`, one action between any two durable effects |
| `MarketRebase` | `rebase_symbol`, `recover_rebase`, `resolve_block`; `Next`, `Spec`, `FairSpec` |
| `MarketProperties` | the properties; `VH == INSTANCE VersionedHistory WITH history <- market, attributed <- content` |
| `VersionedHistory` | what all of it promises: a history that moves from one attributed version to the next |
| `EvidenceBinding` | a consumer's pin, price read, provenance reads and bind, interleaved with the above |
| `EvidenceQualifier` | the qualifier reports keep: signature, blocks, cached provenance and revalidation; `EvidenceSpec` |
| `EvidenceTheorems` | theorems about both |
| `MarketInvariant` | the inductive invariants `MarketInv`, `RecoveryInv` and `FailureInv` |
| `OverlapLemmas`, `MarketProofs` | theorems and proofs: types, the invariant and the refinement, and why what was begun can be finished |
| `ExitRules` | `ExitEngine.evaluate` and the levels a held position carries over: pure operators |
| `ExitCheck` | a position through several sessions, against a reference definition by price paths |
| `RulesTheorems` | theorems about `OverlapCheck`, `ExitCheck` and `ShadowIngestion` |
| `PaperStore` | the tables of the paper database; each operator that primes variables is one transaction |
| `PaperExecution` | process locals, crash, and the first half of a run: `execute_pending_signals` |
| `PaperLifecycle` | the second half, `PaperLifecycleManager.run`, and the price updater; `Next`, `Spec`, `FairSpec`; it calls `ExitRules` |
| `PaperLedger` | what paper trading promises: each signal is dropped or bought once, sold at most once, one open deal per symbol, cash moves with nothing else |
| `PaperProperties` | the properties; `Ledger == INSTANCE PaperLedger WITH deals <- Deals, cash <- portfolio.cash` |
| `PaperTheorems` | theorems for any number of processes: what the intents and the session dates protect; lemmas about sums, loops, and the steps of a run that store nothing |
| `PaperInvariant` | the inductive invariants `PaperInv` and `AccountInv` of one process at a time |
| `PaperRun` | the proofs that rest on it: protection, reports, finished work, types, the balance of the account, and the refinement of `PaperLedger` |
| `PaperObservation` | the prospective evidence of a run: baseline, capture, replay, append, on top of the paper modules; `ObservedSpec` |
| `ObservationTheorems` | theorems about it |
| `DailyMarket` | the securities as the daily operation sees them: calendar, provider with restatements, stored and finalised rows, blocks, open intents, rebases |
| `ForwardLedger` | `forward_validation.db`, one operator per transaction, and which outcomes are averaged |
| `ForwardDaily` | `run_forward_validation_daily`, one action per read and per transaction |
| `RunHistory` | `operation_runs` and `operation_steps`, recorded directly or by a parent |
| `DailyOperation` | `DailyPipeline.run`: the stages, several runs, faults, operator, calendar; `Next`, `Spec` |
| `DailyProperties`, `DailyTheorems` | its properties; their proofs |
| `ShadowRules` | the guard and the operational admission of a prepared batch: pure operators |
| `ShadowIngestion` | allocation of operation identities and both writers, stage by stage in one transaction; `ShadowSpec` |
| `ShadowProperties` | its properties (proofs in `RulesTheorems`) |
| `MCMarket`, `MCEvidenceBinding`, `MCPaper`, `MCPaperObservation`, `MCDaily`, `MCRules` | small instances; `MCRules` joins the three sequential parts (overlap, exit, transactional path) in one run, each behaviour about one of them |

### 2.1 State and code: market

- `market`: the rows of the symbol, `[Session -> Value \cup {NoRow}]`. The five numbers of a
  canonical OHLCV tuple are one abstract value; the guard only tests tuples for equality.
- `lock`: the holder of `BEGIN IMMEDIATE` on `market.db`. Readers and the log do not need it.
- `lastEvent`: the last state event per observation. `observation_state` replays the events of an
  observation and keeps only the last one that denotes a state, so this is all the code ever reads
  of them; event ids the code compares become tickets of a counter.
- `version`, `content`: number and content hash of the latest symbol version, the hash represented
  by the history it hashes. `owner`: `applied_sessions`. `rebaseOwner`: ownership of the latest
  rebase. `receipt`: the unique application index. `block`, `resolution`, `rebasedBlock`.
- `Id`: basis 0 is the semantic identity of a batch; basis v+1 is its `readmission_identity`
  against version v (the same content again after a rebase made its receipt invalid).
- `job[p]`: the locals of a call: observation, captured finalization (sessions, resulting content,
  decision ticket, bound version, confirmed sessions), rebase claim and its ticket.
- `edited`: an out-of-band edit happened (at most one).

Phases in `LockedPhase` lie inside the `BEGIN IMMEDIATE` section. `Crash(p)` is possible in every
phase but idle: SQLite rolls the market back and frees the lock; the log keeps what it committed.
`AppendFails` and `RewriteFails` are a statement raising: the code rolls back, which frees the lock,
and logs the abandonment afterwards, which is a step of its own (`AbandonAfterRollback`).

### 2.2 State and code: paper trading

- `signals`: `paper_pending_signals`; the row id is the index. `orders`: `paper_orders` by
  `source_intent_id`, whose unique index makes it a function. `fills`, `closed`.
- `portfolio`: cash, realized profit and positions as stored; `job[p].mem` is a broker's copy.
- `lifecycle`: one row per symbol, `NoRow` when there is none. Its `since` is no column: it is the
  session whose bar gave the trailing stop, kept to state `TrailingComesFromEarlierSession`.
- `clock`: `updated_at` of a lifecycle is part of an exit's identity; a counter stands for the time.
- `market`: the bars of each session so far; `today` is the latest session of `VNINDEX`.
- `job[p].phase` names the loop a process is in; `todo` and `kept` are what the loop still has to
  visit and what it hands on. One action lies between any two durable effects: an entry is
  `FillEntry` (the transaction), `InitializePosition` (the lifecycle again) and `MarkEntry` (the
  portfolio again); an exit is `ReserveSale` and `FillExit`; a hold is `EvaluatePosition` (reads) and
  `SaveHold` (write).
- `FindEntry` and `FindExit` are the lookups that meet an intent another process has finished: they
  read the stored portfolio again.
- `Abort` is an exception the inputs cause (levels that are not positive, a dataset that advanced
  since it was pinned, a second order row for one intent); `Crash` is a death anywhere.

- `PaperObservation` adds what `main` does around this: `baselines` (a row of `paper_metadata` per
  session, kept in the paper store), `observations` (the ledger) and `capture[p]` (the locals of
  `capture_prospective_portfolio_evidence`). The reads of the account are one SQLite snapshot in the
  code and one step here. `overlapped` is a history variable: two processes have been at work at once.

### 2.3 State and code: daily operation and transactional path

- `rows`, `logged`: per security the stored and the finalised history, a prefix of the calendar at one
  price scale. The provider restates a whole history and a rebase rewrites all of it; `rebase`
  numbers the observation that owns it. Their difference is an open intent, and the dataset version
  a consumer pins is `logged`.
- `pc[r]` is the program counter of run `r`, from the update through the stages to its report; `job[r]`
  holds the batch of the update and what the forward stage has read. One action is one read of the
  market, one read of the ledger, or one transaction.
- `status`, `steps`, `launch`, `recorder`, `exit`: what is recorded of a run, by whom, and how its
  process left. `claim` is a history variable: the session a run validated.
- A fault is a fetch that fails after its retries, a stage that raises, Ctrl-C, a killed process, or a
  killed parent.
- `db` and `draft`: the committed database and what the open transaction sees of it; `txn` is the
  transaction's stage. `BEGIN IMMEDIATE` makes it one at a time. `Fail` may happen at any stage.

### 2.4 Abstractions

- `_supersede_stale_pending` appends one event per observation, and a block is an event and a row;
  each is one step here. A crash in between leaves a prefix whose remaining elements the next
  admission supersedes or records again; the two rows of a block are always read together.
- The paper-exposure check of a rebase is a refusal that may happen at any time.
- Not modelled: unreadable stored rows (`BLOCKED_STORED_HISTORY_INVALID`), provider normalization
  beyond "rows lie in the requested window", the race of two first registrations of the baseline,
  the dataset-wide identity, other symbols, the schema triggers.
- Session numbers are positions in the exchange calendar.
- Paper trading: slippage, commission and tax are amounts per share, prices are small integers, a
  day is a session. Regime, sizing, exposure, liquidity and heat limits are a skip or a rejection
  that may always happen; cash, the held quantity, the order limit and one position per symbol are
  computed. The portfolio is loaded in one step (the code uses four connections). Not modelled: the
  race of two first starts on an empty store, account reset, market prices and snapshots,
  orders without an intent, exit signals (`main` passes none), `expected_date` that is missing or in
  the future (the run's session is the latest one, a pending signal is older).
- Evidence: the state signature of the log is the flag `fresh` (no table it counts was written since).
  Without an edit of `market.db` behind the log's back, what `state_signature` promises holds; a row
  removed that way changes an origin and leaves the signature alone. Reviews of verdicts are not
  modelled.
- Prospective evidence: the event cursor is the number of the last fill (a closed trade is stored with
  its SELL fill); the pin is merged with the read of the prior observation, and the baseline with the
  start of the run. Equity, marks, returns, drawdown, lineage legs and the account epoch are not
  modelled. A first activation that dies between fills and capture keeps them only for a retry on the
  same session, which is what `get_or_create_prospective_evidence_baseline` promises.
- Daily operation: `--stop-on-data-errors`, which ends an incomplete update one stage earlier with the
  same failure, is not modelled, nor an update outside a daily run (another run's update is). The
  forward stage is left out when the update is skipped, as in the code. A record's identity hashes its
  time, so records of two runs under one key always conflict; a gap has no time and is the same for all.
  PENDING maturities are not stored. The activation is a constant.
- Transactional path: a request is its target session, a hash is the tuple it hashes, the schema is the
  migrated one, and the tolerance of the row comparison is equality. The completed-session
  evaluator is a field of the batch (its three verdicts). The isolation of the clone and the
  migrations are not modelled. Two things the model shows and no property forbids: a payload that is
  submitted again with other evidence finds the operation it already has and conflicts every
  time; one unlinked legacy row in the overlap makes a known basis mismatch "unverified", so the
  shadow writer may append rows of another basis (`PassKeepsOneBasis` speaks of the guard's PASS only).

## 3. Runs

| Run | Question | Result |
|---|---|---|
| `rules` | The pure rules. Every history of 3 sessions with 2 values against every candidate batch: is an admitted batch stored whole, and does its retry append nothing? Every bar of prices 1..4 against every valid position, over three sessions: is the exit that of the worst (best) price path, at a traded price, and does the stop never fall? Twelve prepared batches over five days through both transactional writers: does the history only grow at its end, and do receipts, basis and generations agree with it? | holds |
| `market_core` | 2 processes, up to 4 calls, 3 batches, crashes anywhere: the ten properties of the protocol below. Beside up to three of the calls a consumer, or a kept qualifier, races with the protocol: does a binding describe the consumed rows, is drift visible, and is a cached verdict current whenever the signature has not moved? | holds |
| `market_faults` | The same with failing INSERT/UPDATE, under `FairSpec`: does it implement `VersionedHistory`, and does every call end? | holds |
| `market_edited` | Something else rewrites `market.db` once: is a change ever claimed on a history that is not its version? | never |
| `paper_recovery` | One process at a time, two symbols, three sessions, two runs per session, a crash anywhere: the eight properties below | holds |
| `paper_concurrent` | Two processes and the price updater, overlapping anywhere: does an intent keep one fill and its terms? | holds |
| `paper_evidence` | The same with the capture of each run, over three sessions. As long as runs do not overlap: is each fill told by the observations of exactly one session, and does a run that reports evidence have evidence of the account it left? | holds |
| `daily_forward` | Two daily runs, a restatement, a rebase and one fault over two days: do averaged returns use one price scale, and does a recorded success mean that the work is done, but for the stages the run was told to skip? | holds |
| `market_lost_intent` | Is every stored row explained even when an INSERT fails? | **violated** |
| `market_tampered` | Does verification notice every edit of an appended session? | **violated** |
| `paper_trailing_rerun` | Does a trailing stop only act in a session after the one it comes from? | **violated** |
| `paper_stale_portfolio` | Is a sold position gone when all runs are over? | **violated** |

Properties of `market_core`: `OneOpenIntent` (recovery has at most one interrupted change to judge),
`NoUnattributedRow`, `SettledMarketIsVersioned`, `CommittedChangeIsFinalizable` (after COMMIT the
log never refuses the finalization), `OrphanedChangeIsRecoverable` (what a dead process left can be
finished by the next), `AppliedRowsStayStored` (receipt reuse is sound until a rebase),
`AppliedHasNoOpenRevision`, `HistoryRewrittenOnlyByReview`, `BlockLiftedOnlyByAgreement`, `TypeOK`; and,
of the consumers of evidence, `BindingDescribesConsumedRows`, `NoSilentDrift`, `ReusedVerdictIsCurrent`.

Properties of `paper_recovery`: `AccountsBalance` (cash, positions and realized profit are the sums of
fills and closed trades in every state a crash can leave), `HeldHasLifecycle` (a held symbol has a
stop), `SettledAgreesWithOrder` (no rerun calls an executed signal missed or rejected),
`BoughtAtNextOpen`, `RunLeavesNothingDue` (a run that has been through every position leaves no
earlier signal pending and no reserved exit open that it could fill), `ImplementsPaperLedger`,
`EverySignalSettles`, `PaperTypeOK` (cash is never negative, in the store or in a copy).

Properties of `paper_concurrent`: `OneFillPerIntent`, `StoredTermsAreFrozen`; of `paper_evidence`:
`EventsToldOnce` (sessions never tell the same fill, and none of the first observed session or a later one is passed over);
`CapturedRunIsObserved` (a run that trades again on an observed session is refused, not passed off as
the observation there is). Both are claimed while `~overlapped`: with overlapping processes a
late capture may tell fills of a session again that a newer one has told, because nothing but the
order of the runs keeps the cursors in order.

Properties of `daily_forward`: `IncludedOutcomesUseOneBasis`, `ReportedSuccessMeansDone`, `DailyTypeOK`.
Properties of the transactional path in `rules`: `HistoryGrowsAtEnd`, `ReceiptsDescribeHistory`,
`PassKeepsOneBasis`, `GenerationsFormOneChain`.

**Bounds, paper trading.** `paper_recovery` has two symbols, so that the loops of a run have something
before and after each effect; three sessions, so that a signal can be executed, held and sold, or
die in its session and be missed in the next; ATRs with which the position is stopped out, is held,
or has no valid stop; a session in which one symbol is not traded; cash for exactly two purchases
at one of the two opens. `MaxRuns` 2 is the rerun of a session, `MaxCrashes` 1 the death before it.
`paper_concurrent` gives up the second symbol and the third session for the second process. In
`paper_evidence` (2 million states) processes may overlap up to the second session
(`LastSharedDay`); behaviours without overlap go on to a third, which is what it takes for an
observation to resume from an earlier one that was made under either of two configurations. In
`paper_concurrent` `AccountsBalance` and its like do not hold, as `paper_stale_portfolio` shows, so only what the
intents protect is claimed. In these instances no broker's copy falls behind the sale it is about to
make, so the refusal inside `ReserveSale` is modelled but not exercised.

**Bounds, market.** Two or three sessions give an empty history, a baseline, a boundary session and a new
one; two values tell agreement from revision; the batches are an append, a retry of its tail, a
back-adjusted history and its prefix, which between them reach every verdict of `classify_overlap`,
a block, its review, its rebase, its lifting and a re-admission. `MaxJobs` (3 or 4 calls) allows the
longest story of interest: an admission that dies, a second that blocks, a rebase that dies, a
recovery. `MaxVersion` bounds the version a re-admission may be bound to; with at most four calls
it is never what stops a behaviour short of a property. Two processes are enough for every race of
this code, because the market lock admits one at a time and the only unlocked writes are
finalizations, abandonments and reviews. `ProcSymmetry` is used only in runs without liveness.
Deadlock is not checked: once `MaxJobs` calls were made, every process may be idle for ever.

**Bounds, rules, evidence, daily operation.** `rules` (0.8 million states): five days and at most four
operations let a batch be appended, retried, revised with and without an explanation, relinked under
another basis and anchored on by a later one; the batches leave a hole, a price gap, an unresolved
session. Beside the consumers in `market_core` (0.7 million), two sessions and three calls
(`MaxObservedJobs`) give an append, a block, a rebase and a recovery around the reads; a consumer and a
qualifier only read, so each is explored on its own, with a dependency on one session or on both.
`daily_forward` (2.1 million): one stock and the benchmark, four sessions of which two are stored and
audited before, one horizon, so that an outcome formed before a restatement matures after it. Two runs
are enough for a conflict over each record; the second starts on the last day, while the first may be
anywhere. The first may be told to skip the update, the lifecycle, or update and scanner
(`SkipOptions`), the second at most the update. One fault is a death at any step, or a failing fetch, or
a lost parent.

**Fairness.** Nothing is claimed of the daily operation that would need it: a run that died stays
RUNNING until somebody looks. Paper: `FairSpec` is weak fairness of `OpenSession` (sessions follow
one another while the bound lasts), of starting a run (the daily operation starts one as long as
`MaxRuns` of the session allows), and of a started run going on. A run may die or raise every time
up to `MaxCrashes`; nothing is assumed of the signals queued or of which way an undetermined check
falls.

Market: `FairSpec` is weak fairness of `Progress(p)`: a process that has started a call keeps
executing it (or dies). Nothing is assumed of starting calls, of reviews or of crashes. Waiting for
the lock is not assumed to be fair beyond that: the holder leaves its section because it makes
progress, and only finitely many calls exist, so the waiter's step becomes enabled for good. The
code's `busy_timeout` may turn a long wait into an exception, which is a way for the call to end.

### 3.1 Findings

1. `market_lost_intent`. `market_admission.py:1168` rolls back, which frees the market lock, before
   `INTENT_ABANDONED` is logged (1169-1182). In between, a second process that admits the same
   batch settles the open intent, records its own intent for the same observation and commits its
   rows; the late abandonment of the first is then the last event of the observation and closes
   the intent of the second. Its `record_application` is refused and the committed rows have no
   owner, no version and no open intent. `market_rebase.py:662-680` has the same order.
2. `market_tampered`. Recovery finalizes an interrupted append with the hash of the **whole** current
   market (`market_admission.py:718`) but checks only the sessions the intent claimed. An edit of
   another appended session between the crash and the recovery becomes part of the new version;
   the audit document says such tampering is detectable.
3. `paper_trailing_rerun`. `exit_engine.py:87` promises that only a trailing level of an earlier session
   acts on a bar. The level is stored at the end of a hold without its session
   (`lifecycle_manager.py:388`), so running the lifecycle again on the same day, which the
   operations audit recommends after a failure, evaluates the bar it was computed from.
4. `paper_stale_portfolio`. A run that loaded its portfolio before another run sold, and comes to the
   symbol afterwards, finds no lifecycle, skips it and at its end writes its old copy: the position
   is held again, the proceeds are gone, and nothing will ever sell it. The repository's test of two
   concurrent exits covers the path on which both attempts reserve the same intent.

## 4. Proofs

Checked by `tlapm` with Z3, Zenon and LS4, for **any** values of the constants: processes, runs,
sessions, securities, values, batches, operations, faults and initial histories. Assumptions on the
constants are the named `ASSUME`s of the modules that declare them.

| Theorem | States |
|---|---|
| `MarketProofs!MarketTypeCorrect` | `Spec => []TypeOK`, with failing writes and edits too |
| `MarketProofs!OneIntentAtATime`, `MismatchIsNeverClaimed` | `Spec => []OneOpenIntent`, `Spec => MismatchNeverClaimed`, with failing writes and edits too |
| `MarketProofs!FailureInvHolds`, `ProtocolImplementsVersionedHistory` | `Spec => []FailureInv` and the refinement of `VersionedHistory`, with failing writes |
| `MarketProofs!MarketInvHolds` | `Spec => []MarketInv` |
| `MarketProofs!SettledIsVersioned`, `EveryRowIsAttributed`, `RewrittenOnlyByReview` | the properties of the protocol in `market_core` about versions, ownership and rewritten values |
| `MarketProofs!RecoveryInvHolds` | `Spec => [](MarketInv /\ RecoveryInv)` |
| `MarketProofs!CommittedIsFinalizable`, `OrphanedIsRecoverable`, `ReceiptsStayTrue`, `AppliedIsNotBlocked`, `BlocksAreLiftedByAgreement` | five more properties of the protocol in `market_core` |
| `EvidenceTheorems!EvidenceInvHolds` | `EvidenceSpec => []EvidenceInv`; `BindingInvHolds` is its part about the consumer |
| `EvidenceTheorems!BindingIsTrue`, `DriftIsNeverSilent`, `ReusedVerdictsAreCurrent` | `BindingDescribesConsumedRows`, `NoSilentDrift`, `ReusedVerdictIsCurrent` |
| `RulesTheorems!AdmittedIsStored`, `RetriesConfirm`, `OnlyAppendsBehind` | the properties of `OverlapCheck` |
| `RulesTheorems!ExitsAtTradedPrice`, `StopOnlyRises`, `ExitsAtWorstPrice` | `ExitPriceWasTraded`, `StopNeverFalls` and `ExitTakesWorstPath`, for all bars and policies |
| `PaperTheorems!OneFillAlways`, `TermsAlwaysFrozen` | `OneFillPerIntent` and `StoredTermsAreFrozen` of the paper modules (without the capture, which writes none of their tables but the baseline) |
| `PaperTheorems!AlwaysBoughtAtNextOpen` | `BoughtAtNextOpen`, for any number of processes |
| `PaperRun!HeldAlwaysProtected`, `ReportsAlwaysAgree`, `RunsFinishTheirWork`, `PaperAlwaysTyped` | `HeldHasLifecycle`, `SettledAgreesWithOrder`, `RunLeavesNothingDue`, `PaperTypeOK`, for one process at a time |
| `PaperRun!AccountsAlwaysBalance` | `AccountsBalance`, for one process at a time |
| `PaperRun!PaperImplementsLedger` | `Spec => ImplementsPaperLedger`, for one process at a time |
| `ObservationTheorems!EvidenceAlwaysHolds` | `ObservedSpec => []EvidenceInv` |
| `ObservationTheorems!EventsAlwaysToldOnce`, `CapturedAlwaysObserved` | `EventsToldOnce` and `CapturedRunIsObserved`, for any number of processes, sessions and configurations (the properties themselves are about one process at work at a time) |
| `DailyTheorems!DailyTypesCorrect`, `EvaluationUsesOneBasis`, `SuccessIsReal` | the three properties of `daily_forward` |
| `RulesTheorems!HistoryOnlyGrows`, `ReceiptsAgree`, `BasisIsKept`, `GenerationsStayChained` | the four properties of the transactional path |

The theorems of `MarketProofs` from `MarketInvHolds` on in the table, and those of
`EvidenceTheorems` about invariants, assume `Faultless`: no INSERT or UPDATE raises and nothing else
writes `market.db`. Crashes, recovery, reviews and interleavings are all included.
`NoUnattributedRow` needs that no write fails: finding 1 refutes it without it. The theorems of
`PaperRun` assume `OneProcess`: any two processes are the same one. Runs still crash anywhere, are
repeated, and alternate with the price updater. Nothing in the code excludes a second process, and
with one the theorems are false: finding 4 is a counterexample. What two processes cannot break is
in `PaperTheorems`.

### 4.1 Market: `MarketInv`

The properties are not inductive: they say nothing of what a process has captured and will
write later. `MarketInv` adds:

- `LockDiscipline`: a process is in a locked phase exactly while it holds the lock. So at most one
  process claims, writes or withdraws.
- `IntentsExplainMarket`: an open append claims only sessions behind the latest version, and the
  market is that version or that version with all of the claimed rows (so recovery is never
  ambiguous); likewise for a rewrite, whose block is moreover unresolved.
- `VersionAttributed`: every row of the latest version is baseline or owned.
- `TicketsIssued`: a captured event ticket is an old one, so a new rebase intent cannot be mistaken
  for the one a slow process remembers.
- `JobsConsistent`: what a process may rely on at each phase. Inside the section before the claim no
  intent is open; after it, the claim is this process's; after COMMIT, either somebody (recovery)
  has already recorded the change or the claim is still open and the market is its result.

The step proof classifies all actions into five kinds (`QuietStep`, `ClaimingStep`, `WritingStep`,
`AttributingStep`, `AbandoningStep`). For each kind one lemma shows that the log/market part is
kept and one that every process the step does not move stays consistent; for each action one step
shows its kind and the consistency of its own process. The key point is that a version is made
only while the market differs from the previous version, which no process inside its section before
its own write allows; so captured decisions never go stale.

### 4.2 Market: `RecoveryInv`

`MarketInv` says that what is recorded is true; it does not say that it can be recorded.
`RecoveryInv` is inductive relative to it and adds `LogReady` and, per process, `JobReady`.
`LogReady`: blocks have tickets, owned sessions are versioned, a block a rebase has used is
resolved, open intents are of unapplied observations, their claims are current (`ClaimsAreCurrent`:
finishing them leaves the batch stored whole, or leaves no open revision behind that the new basis
would agree with), open revisions disagree with the latest version, applied observations have none,
and receipts agree with the history until a rebase. `JobReady`: what it captured is still what the
log would accept. A second classification carries the step proof: `KeepingStep` (nothing new is
claimed, recorded or blocked), `BlockingStep`, `CurrentClaimStep` and `ApplyingStep`. `JobReady` of
a process at rest survives the others' steps because two processes never hold the lock and the one
open intent explains the market: whoever applies it does so for every process that waits to.

### 4.3 Market: failing writes

`OneIntentAtATime` and `MismatchIsNeverClaimed` are about what goes wrong, so they assume nothing of it:
writes fail, intents are withdrawn at any point, and others edit `market.db` while nobody holds the lock.
What is left then is `ControlInv` (`LockDiscipline`, `TicketsIssued`) and `ComparingInv`: at most one
intent is open, and none while somebody compares; who has compared has the latest version in the market;
before the first version that is the baseline, and no block is used up. A step of a process claims
something only after it has compared, and a step of nobody claims nothing; so a market that differs from
the latest version is never claimed on.

The refinement needs to know in addition what a process writes. A process whose write failed has given
the lock back and withdraws the intent of its observation afterwards, whoever has claimed it
meanwhile (finding 1). So the intent a process acts on may vanish under it between its claim and its
COMMIT, or before it finalizes. `FailureInv` adds `JobBacked`: what a process has in hand after its claim is
a change of the latest version, and no intent is open but its own, which says exactly that change. Of
`MarketInv` it keeps `IntentsExplainMarket` and `VersionAttributed`; `SettledMarketIsVersioned` and
`JobsConsistent` are lost. A step is then one of five kinds: it is quiet, withdraws
the open intent, claims after comparing, attributes the claimed change, or writes what its process has in
hand. The last is `Append` or `Rewrite` of `VersionedHistory`, attributing is `Attribute`, the rest
stutters. A change that was written under a withdrawn intent is never attributed, and nothing follows it:
`ImplementsVersionedHistory` promises that versions are whole, not that they come. The lock is what carries
the proof that two changes in hand do not mix, the ticket of an event that a slow rebase does
not take another rebase of its observation for its own. TLC checked `FailureInv` on the
instance of `market_faults` before it was proved.

### 4.4 Rules, paper trading

The exit theorems rest on one lemma per stage of an exit (open, session, close): each returns a hold
or a price between low and high; the stage after the open may use that the open met no level. That
the stop only rises follows from `NextTrailing` never being below the carried level. For `ExitTakesWorstPath`
the two paths of the reference are priced in each of five cases: a level met at the open, or during the
session the stop, the target, both or neither. That a path which comes to both finds the stop below the
target follows from the open having met neither.

`PaperTheorems` rests on `IntentInv`: stored orders have one of three statuses, fills and filled
orders correspond one to one, and the locals of a process can be trusted: the open sales its broker
has loaded are stored, and a sale it is about to make is stored already or is new and accepted.
The last part is what makes the rest inductive: `ReserveExit` stores whatever its caller prepared,
and had a caller prepared a filled order, the reservation would store one without a fill. Every
action is one of four kinds (`KeepsIntents`, `InsertsRejected`, `FillsIntent`, `ReservesIntent`); one
lemma per kind shows that orders and fills stay matched and that orders only grow, one lemma per
half of a run gives the kind of each action. Nothing is assumed of the portfolio copies, which is
why the result survives finding 4.

`BoughtAtNextOpen` needs only dates, so it too holds for any number of processes. `DayInv` says that the
stored order of a signal is of the session after it (`OrderDays`), and of a process that what it still
has to execute was queued the session before its own (`JobDays`). A signal's date never changes and
new rows come at the end of the table (`SignalsGrow`), so a process that sleeps stays right.

### 4.5 Paper trading, one process at a time

What `paper_recovery` checks is about the account as a whole, and an account can be written back from
a stale copy: here the invariant has to say what a run *knows*. `PaperInv` has two parts.

- `TablesOK`, of the tables in every state a death can leave: an order is the entry of its signal, dated
  the session after it, or an exit of a bought and settled signal (`OrdersOK`); what is bought and not
  sold is what the lifecycle row of its symbol protects, and conversely (`DealsOK`, `RowOK`); a reserved
  exit sells the whole position at its cost, and a symbol has one (`OpenSalesOK`); held symbols are those with a row;
  reports agree with orders.
- `RunInv` of the locals, phase by phase: the broker's copy is what is stored; the four loops of
  `execute_pending_signals` visit every outstanding signal exactly once and what one loop passes on is
  what the next may assume (`VisitOK`, `ExecuteOK`, `ResultsOK`); the manager's list of reserved exits is
  right for every position it has not come to (`ManageOK`); a prepared exit sells what is held at terms
  that are the stored ones if it is stored already (`ReserveOK`).

Each action is proved in two halves: the tables keep their properties (`...Keeps`), and the run advances
with the knowledge its next phase needs (`...Advances`). Three facts are worth naming. That the loops
miss nothing needs that `InOrder`, the query's `ORDER BY`, returns every id once: a `CHOOSE` of an
ascending sequence, which exists for every finite set of row ids (`AscendingExists`; the induction is
carried out with `LeastNumber`, over sets instead of predicates). That an exit never costs more than it
brings needs that every exit price is at least the low of its bar (`ExitAboveLow`) and
`MarketsAssumption`. That `RunLeavesNothingDue` holds needs that completing the signals of the session
clears `Outstanding` before the manager loads its positions.

The refinement maps signal `i` to a deal whose stage is read off its order and its exits. `StepsOfLedger`
goes through the actions: completing a signal without an order, or storing a rejected one, is `Drop`
(`CompletionDrops`, `RejectionDrops`); `FillEntry` is `Buy` (`EntryBuys`: no other deal of the symbol is
open because the symbol is not held and `DealsOK`); `FillExit` is `Sell` (`ExitSells`); queueing is
`Enqueue`; everything else, reservations, lifecycle writes, restarts and crashes included, moves
no deal and no cash.

`AccountsBalance` is about three sums: cash over all fills, shares over the fills of a symbol and a side,
profit over the closed trades. With `BooksOK` (typed fills; a closed trade is that of a filled exit) it is
inductive beside `PaperInv`. A sum over a set is defined by recursion over its subsets; that the recursion
has a solution on every finite set (`SumsExist`) and that any element may be taken out first (`SumsTake`)
are inductions over sets of subsets (`SubsetInduction`), from which `SumOfOneMore` follows: a fill adds
its cash to one sum and its shares to one other (`FillAdds`), a sale adds its profit (`TradeAdds`). What
the account then needs of the code is that a symbol is bought only while it is not held, that the
trade of a sale is new (its intent was not filled before), and that the frozen terms of an exit carry
the cost of the position it sells, also when a later run resumes it (`SellsAll`).

### 4.6 Prospective evidence

An observation tells the fills behind the one it resumes from, so that sessions tell each fill once is a
matter of order between three tables of two databases: fills, baselines, observations. `EvidenceInv`
has three parts.

- `DatesOK`, for any number of processes: every order is of a session that has its baseline, and every
  fill before a baseline is of an earlier session. It rests on the session a run carries and on that of
  a reserved exit it resumes (`JobDated`), and on `IntentInv` and `DayInv`: fills are only appended and
  an order never changes its session (`StoreKeeps`).
- `ObservationsOK`, also for any number: an observation tells the fills up to its cursor from some
  fill on, and a capture under way is of a session with a baseline.
- `TellingOK`, while no two processes have been at work at once: whoever works, works for the latest
  session there is an observation of; a later session resumes behind all an earlier one has told
  (`ToldInOrder`); what is behind a cursor is told, or was filled before every observed session
  (`NoneMissed`); and what a capture has read of the account is still so (`CaptureKnows`), since nobody
  trades meanwhile.

The step that matters is `FindPrior`: the greatest cursor of the latest earlier session is behind
everything told before, and where there is none the baseline passes over only fills of earlier sessions
(`ResumingMissesNothing`; `GreatestNumber` shows that the maximum exists). The hypothesis `~overlapped`
is in the properties: with two processes a run may fill orders between another's read and its append.

### 4.7 Evidence

A consumer reads prices and provenance step by step while writers go on, and only checks at the end that
the version is the one it pinned. `ReaderInv` says what is true meanwhile *as long as the pinned version is
the latest*: a row taken from an unfinished change (`Tainted`) is still in the market and not in the
version (`Dirty`), and a dirty session is claimed by the open intent, which the later of the two claim
reads must have seen (`PinnedReads`). Prices are read before claims, and a change finished in between
moves the version; that order is what makes the bind sound. Once bound, the pinned row of a session is
the latest one unless a rebase has become its owner (`BoundReads`), and receipts are never reused, so an
owner that reads as before is the same rewrite. Neither consumer nor qualifier writes what the protocol
keeps (lemmas `ConsumerOnlyReads`, `QualifierOnlyReads`, immediate from their actions), so the
protocol's theorems hold beside them. `QualifierInv` is the same idea with the signature for
the version: while it stands, what was read is what is stored, except rows of a claimed append.

### 4.8 Daily operation

Three invariants, one on top of the other. `TypeInv` adds to the types what each program counter
holds. `BasisInv`: rows are never behind the log and only a rebase changes a scale (`RowsLead`); bound
evidence whose rebase number is the current one was read at the current scale (`FaithfulTo`);
between the read and the bind this holds only *if* the pinned version is still current and no rebase
is in flight (`InFlight`), which is exactly what `bind` checks, and a version once left never comes
back (`VersionNeverReturns`). The steps of all runs change the market in three ways only
(`SettlesRows`, `AppendsRows`, `RebasesRows`), and one lemma per part covers them. `DoneInv` carries
through the program counters what is done by then of the session the run validated (`GoodAt`), which
is nothing for a stage it skips;
ledger, gaps and traded sessions only grow (`Grown`), so another run never takes it back.

### 4.9 Transactional path

`ShadowInv` asserts the properties of the committed database **and of the draft alike** (`Sound`,
`Chained`), so that a commit has nothing left to show and a rollback falls back on what already
holds. `TxnInv` says what a stage may rely on: nothing but the new observation is drafted before the
decision, and afterwards only rows at the end. The heart is `ApprovalKeepsSound`: `PassRules` and
`AdmissionRules` extract from guard and admission that no approved batch revises or fills in, and
`StoringAppends` that storing one, its new days or all of it, leaves it stored whole and every old
row alone; that relinking confirmed rows keeps older operations' basis needs that a PASS has seen the
batch's own basis on every stored day it reports.

### 4.10 Only model-checked

Liveness (`CallsTerminate`, `EverySignalSettles`) is out of reach of the prover. Every other property of a
passing run is stated by a theorem. `OnlyAppends` is proved and in no run.

## 5. Plan and limits

*Done:* the market group with all safety properties of the protocol in `market_core` proved; the rules; paper trading
with its abstract ledger and its prospective evidence, and proofs of what the intents protect, of what the
evidence tells and, for one process at a time, of the balance and the refinement of the ledger; the evidence binding and its qualifier, proved; the daily operation with the forward ledger and the run history,
proved; the transactional path, proved.

*Left:*

1. Whether what the log promises (`RecoveryInv`) survives failing writes, beside the ownership of rows,
   which does not.
2. The provenance gate read by read, reviews of qualified evidence, the reset of a paper account with
   its epoch, and the valuation in prospective observations.
3. The accounting of `backtesting/portfolio_simulator.py` and `backtesting/engine.py`: sequential and
   numeric, but with the same cash and position rules as the paper broker.

**Not modelled.** Numeric strategy, research and evaluation code (the larger part of the repository:
data frames in, tables out, no operational state), user interface, formatting and network output, the
read-only comparisons of paper reconciliation and provenance, and SQLite itself, taken to provide
atomic, durable, serialized transactions per file. `PROJECT.json` gives the reason per component.
