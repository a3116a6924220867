---------------------------- MODULE DailyTheorems ----------------------------
(***************************************************************************)
(* What the daily operation keeps for any securities, sessions, horizons,  *)
(* number of runs, restatements and faults: its types, the one price basis *)
(* of every evaluated outcome, and that a reported success is real.        *)
(***************************************************************************)
EXTENDS DailyProperties, TLAPS

-----------------------------------------------------------------------------
(* Type correctness, strengthened by what each program counter holds. *)

MarketType ==
  /\ today \in Session /\ published \in Session
  /\ restated \in [Security -> Scale]
  /\ rows \in [Security -> History] /\ logged \in [Security -> History]
  /\ blocks \in [Security -> SUBSET Block]

LedgerType ==
  /\ formation \in [Session -> Evidence \cup {Missing}]
  /\ matured \subseteq Pair
  /\ outcome \in [Pair -> Evidence \cup {Missing}]
  /\ gaps \subseteq Session

ProcType == pc \in [Run -> Label] /\ job \in [Run -> JobType]

WithEvidence == {"bind", "record", "bindOutcome", "qualify", "outcome"}
WithPin == {"sessions", "formed", "closes", "bind", "record", "formations",
            "outcomes", "maturities", "pairs", "target", "bindOutcome",
            "qualify", "outcome"}

\* What run r holds at its program counter.
Holding(r) ==
  /\ pc[r] \in WithEvidence => job[r].evidence \in Evidence
  /\ pc[r] \in WithPin => job[r].pin \in [Security -> History]

HistoryType == status \in [Run -> Terminal \cup {"none", "RUNNING"}]
OperationType ==
  /\ skips \in [Run -> SUBSET Skippable]
  /\ acted \subseteq Session /\ faults \in 0..MaxFaults

TypeInv ==
  /\ MarketType /\ LedgerType /\ ProcType
  /\ HistoryType /\ OperationType
  /\ \A r \in Run : Holding(r)

\* A run moves to a label with a job that fits it.
Moves(r, label, j) ==
  /\ label \in Label /\ j \in JobType
  /\ label \in WithEvidence => j.evidence \in Evidence
  /\ label \in WithPin => j.pin \in [Security -> History]

\* Any step of one run that moves it to a fitting label and job keeps the
\* types of the processes.
LEMMA MovesKeepTypes ==
  ASSUME NEW r \in Run, NEW label, NEW j,
         ProcType, \A q \in Run : Holding(q),
         Moves(r, label, j),
         pc' = [pc EXCEPT ![r] = label], job' = [job EXCEPT ![r] = j]
  PROVE  ProcType' /\ \A q \in Run : Holding(q)'
<1>1. ProcType'
  BY DEF ProcType, Moves
<1>2. ASSUME NEW q \in Run PROVE Holding(q)'
  <2>1. CASE q = r
    BY <2>1 DEF ProcType, Holding, Moves
  <2>2. CASE q # r
    <3>1. pc'[q] = pc[q] /\ job'[q] = job[q]
      BY <2>2 DEF ProcType
    <3> QED BY <3>1 DEF Holding
  <2> QED BY <2>1, <2>2
<1> QED BY <1>1, <1>2

\* The bounds of the constants, as the proofs use them.
LEMMA Bounds ==
  /\ LastSession \in Nat /\ 1 \in Session /\ FirstToday - 1 \in Session
  /\ FirstToday \in Session /\ Session \subseteq Nat /\ 0 \in Scale /\ Scale \subseteq Nat
  /\ Start \in Session /\ Benchmark \in Security
BY MarketAssumption, LedgerAssumption DEF Session, Scale, Security

\* A run that is between stages holds nothing.
LEMMA IdleType == Idle \in JobType
<1>1. Missing \in Evidence \cup {Missing} /\ NoBatch \in Batch \cup {NoBatch}
  OBVIOUS
<1>2. <<>> \in [Security -> History] \cup {<<>>}
  OBVIOUS
<1>3. 0 \in 0..LastSession
  BY Bounds
<1> HIDE DEF Missing, NoBatch
<1> QED BY <1>1, <1>2, <1>3 DEF Idle, JobType

\* Every security has its history, and a batch is about a security.
LEMMA MarketFacts ==
  ASSUME MarketType, NEW sec \in Security
  PROVE  /\ rows[sec] \in History /\ logged[sec] \in History
         /\ blocks[sec] \subseteq Block
         /\ rows[sec].upto \in Session /\ logged[sec].upto \in Session
         /\ rows[sec].scale \in Scale /\ rows[sec].rebase \in Scale
BY DEF MarketType, History

LEMMA AnswerType ==
  ASSUME MarketType, NEW sec \in Security
  PROVE  Answer(sec) \in Batch
<1>1. (IF rows[sec].upto > Overlap THEN rows[sec].upto - Overlap ELSE 1) \in Session
  BY MarketFacts, MarketAssumption DEF Session
<1>2. published \in Session /\ today \in Session /\ restated[sec] \in Scale
  BY DEF MarketType
<1> QED BY <1>1, <1>2 DEF Answer, Batch

\* The market keeps its types whatever batch of a type is decided.
LEMMA BlockRevisionType ==
  ASSUME MarketType, NEW b \in Batch, BlockRevision(b)
  PROVE  MarketType'
<1>1. Disputed(b) \in SUBSET Session
  <2>1. b.from \in 1..LastSession /\ b.until \in 1..LastSession
    BY DEF Batch, Session
  <2>2. \A s \in b.from..b.until : s \in 1..LastSession
    BY <2>1, MarketAssumption
  <2> QED BY <2>2 DEF Disputed, Session
<1>2. [scale |-> b.scale, sessions |-> Disputed(b)] \in Block
  BY <1>1 DEF Batch, Block
<1> QED BY <1>2 DEF MarketType, BlockRevision, Batch

LEMMA DecisionType ==
  ASSUME MarketType, NEW b \in Batch,
         ConfirmBatch(b) \/ CommitAppend(b) \/ FinishAppend(b)
  PROVE  MarketType'
<1>1. b.sec \in Security /\ b.upto \in Session
  BY DEF Batch
<1>2. [rows[b.sec] EXCEPT !.upto = b.upto] \in History
  BY <1>1, MarketFacts DEF History
<1>3. CASE ConfirmBatch(b)
  BY <1>3 DEF MarketType, ConfirmBatch
<1>4. CASE CommitAppend(b)
  BY <1>1, <1>2, <1>4 DEF MarketType, CommitAppend
<1>5. CASE FinishAppend(b)
  BY <1>1, <1>5, MarketFacts DEF MarketType, FinishAppend
<1> QED BY <1>3, <1>4, <1>5

LEMMA SettleType ==
  ASSUME MarketType, NEW sec \in Security, Settle(sec)
  PROVE  MarketType'
BY MarketFacts DEF MarketType, Settle

LEMMA RebaseType ==
  ASSUME MarketType, NEW sec \in Security, CommitRebase(sec)
  PROVE  MarketType'
<1>1. PICK b \in blocks[sec] :
        rows' = [rows EXCEPT ![sec].scale = b.scale, ![sec].rebase = @ + 1]
  BY DEF CommitRebase
<1>2. b.scale \in Scale
  BY MarketFacts DEF Block
<1>3. rows[sec].rebase + 1 \in Scale
  BY MarketFacts, MarketAssumption DEF CommitRebase, Scale
<1>4. [rows[sec] EXCEPT !.scale = b.scale, !.rebase = @ + 1] \in History
  BY <1>2, <1>3, MarketFacts DEF History
<1>5. rows' \in [Security -> History]
  BY <1>1, <1>4 DEF MarketType
<1> QED BY <1>5 DEF MarketType, CommitRebase

LEMMA EnvironmentType ==
  ASSUME MarketType, Publish \/ NextDay \/ \E sec \in Security : Restate(sec)
  PROVE  MarketType'
<1>1. CASE Publish
  BY <1>1 DEF MarketType, Publish
<1>2. CASE NextDay
  BY <1>2, Bounds DEF MarketType, NextDay, Session
<1>3. ASSUME NEW sec \in Security, Restate(sec) PROVE MarketType'
  <2>1. restated[sec] + 1 \in Scale
    BY <1>3, MarketAssumption DEF MarketType, Restate, Scale
  <2> QED BY <1>3, <2>1 DEF MarketType, Restate
<1> QED BY <1>1, <1>2, <1>3

-----------------------------------------------------------------------------
(* The steps of one run. *)

ProcInv == ProcType /\ \A r \in Run : Holding(r)

LEMMA StopType ==
  ASSUME NEW r \in Run, ProcInv, NEW failed \in BOOLEAN,
         NEW stage \in {"integrity", "forward", "lifecycle", "scanner"},
         Stop(r, stage, failed)
  PROVE  ProcInv'
<1> DEFINE j == [Idle EXCEPT !.stage = stage, !.failed = failed]
<1>1. j \in JobType
  BY IdleType DEF JobType
<1>2. Moves(r, "report", j)
  BY <1>1 DEF Moves, Label, WithEvidence, WithPin
<1> QED BY <1>2, MovesKeepTypes DEF Stop, Goto, Set, ProcInv

LEMMA RaiseType ==
  ASSUME NEW r \in Run, ProcInv, Raise(r)
  PROVE  ProcInv'
BY StopType DEF Raise

\* A step that only moves the program counter.
LEMMA GotoType ==
  ASSUME NEW r \in Run, ProcInv, NEW label \in Label, Goto(r, label), UNCHANGED job,
         label \in WithEvidence => pc[r] \in WithEvidence,
         label \in WithPin => pc[r] \in WithPin
  PROVE  ProcInv'
<1>1. job[r] \in JobType /\ job' = [job EXCEPT ![r] = job[r]]
  BY DEF ProcInv, ProcType
<1>2. Moves(r, label, job[r])
  BY <1>1 DEF Moves, ProcInv, Holding
<1> QED BY <1>1, <1>2, MovesKeepTypes DEF Goto, ProcInv

LEMMA UpdateType ==
  ASSUME NEW r \in Run, MarketType, ProcInv,
         UpdateStage(r) \/ FetchFails(r)
  PROVE  MarketType' /\ ProcInv'
<1> DEFINE b == job[r].batch
<1>1. job[r] \in JobType /\ (Holds(r) => b \in Batch) /\ job[r].todo \subseteq Security
  BY DEF ProcInv, ProcType, JobType, Holds
<1>2. ASSUME NEW j \in JobType, Set(r, j), At(r, "update"), UNCHANGED pc
      PROVE  ProcInv'
  <2>1. Moves(r, "update", j)
    BY DEF Moves, Label, WithEvidence, WithPin
  <2>2. pc' = [pc EXCEPT ![r] = "update"]
    BY <1>2 DEF At, ProcInv, ProcType
  <2> QED BY <1>2, <2>1, <2>2, MovesKeepTypes DEF Set, ProcInv
<1>3. ASSUME NEW failed \in BOOLEAN, Done(r, failed), At(r, "update"), UNCHANGED pc
      PROVE  ProcInv'
  <2>1. [job[r] EXCEPT !.todo = @ \ {job[r].batch.sec}, !.batch = NoBatch,
                       !.failed = @ \/ failed] \in JobType
    BY <1>1 DEF JobType
  <2> QED BY <1>2, <1>3, <2>1 DEF Done
<1>4. CASE Fetch(r)
  <2>1. PICK sec \in job[r].todo : Set(r, [job[r] EXCEPT !.batch = Answer(sec)])
    BY <1>4 DEF Fetch
  <2>2. [job[r] EXCEPT !.batch = Answer(sec)] \in JobType
    BY <1>1, AnswerType DEF JobType
  <2>3. MarketType'
    BY <1>4 DEF Fetch, Steady, marketVars, MarketType
  <2> QED BY <1>2, <1>4, <2>1, <2>2, <2>3 DEF Fetch
<1>5. CASE Reconcile(r)
  <2>1. MarketType'
    BY <1>1, <1>5, SettleType DEF Reconcile, Batch
  <2>2. ProcInv'
    BY <1>5 DEF Reconcile, ProcInv, ProcType, Holding
  <2> QED BY <2>1, <2>2
<1>6. CASE Decide(r)
  <2>1. CASE BlockRevision(b) /\ Done(r, TRUE)
    BY <1>1, <1>3, <1>6, <2>1, BlockRevisionType DEF Decide
  <2>2. CASE ConfirmBatch(b) /\ Done(r, FALSE)
    BY <1>1, <1>3, <1>6, <2>2, DecisionType DEF Decide
  <2>3. CASE CommitAppend(b) /\ Set(r, [job[r] EXCEPT !.batch.committed = TRUE])
    <3>1. [b EXCEPT !.committed = TRUE] \in Batch
      BY <1>1, <1>6 DEF Decide, Batch
    <3>2. [job[r] EXCEPT !.batch.committed = TRUE] \in JobType
      BY <1>1, <3>1 DEF JobType
    <3> QED BY <1>1, <1>2, <1>6, <2>3, <3>2, DecisionType DEF Decide
  <2> QED BY <1>6, <2>1, <2>2, <2>3 DEF Decide
<1>7. CASE Finish(r)
  BY <1>1, <1>3, <1>7, DecisionType DEF Finish
<1>8. CASE FetchFails(r)
  BY <1>3, <1>8 DEF FetchFails, Steady, marketVars, MarketType
<1> QED BY <1>4, <1>5, <1>6, <1>7, <1>8 DEF UpdateStage

-----------------------------------------------------------------------------
(* The forward stage. *)

\* A read of closes is evidence, at any session.
LEMMA ReadType ==
  ASSUME MarketType, NEW session
  PROVE  Read(session) \in Evidence
BY MarketFacts, Bounds DEF Read, Evidence

\* A step that moves the program counter and replaces the job.
LEMMA SetType ==
  ASSUME NEW r \in Run, ProcInv, NEW label, NEW j, Moves(r, label, j),
         Goto(r, label), Set(r, j)
  PROVE  ProcInv'
BY MovesKeepTypes DEF Goto, Set, ProcInv

LEMMA BindType ==
  ASSUME NEW r \in Run, MarketType, ProcInv, NEW session,
         NEW label \in {"record", "qualify"}, pc[r] \in WithEvidence,
         pc[r] \in WithPin, Bind(r, session, label)
  PROVE  ProcInv'
<1> DEFINE bound == [sec \in Security |-> logged[sec].rebase]
           e == [job[r].evidence EXCEPT !.bound = bound]
           j == [job[r] EXCEPT !.evidence.bound = bound]
<1>1. job[r] \in JobType /\ job[r].evidence \in Evidence
      /\ job[r].pin \in [Security -> History]
  BY DEF ProcInv, ProcType, Holding
<1>2. bound \in [Security -> Scale]
  BY MarketFacts DEF History
<1>3. e \in Evidence
  BY <1>1, <1>2 DEF Evidence
<1>4. j = [job[r] EXCEPT !.evidence = e]
  BY <1>1 DEF JobType
<1> HIDE DEF e, bound
<1>5. j \in JobType /\ j.evidence = e /\ j.pin = job[r].pin
  BY <1>1, <1>3, <1>4 DEF JobType
<1>6. Moves(r, label, j)
  BY <1>1, <1>3, <1>5 DEF Moves, Label, WithEvidence, WithPin
<1>7. (Goto(r, label) /\ Set(r, j)) \/ Raise(r)
  BY DEF Bind, bound
<1> QED BY <1>6, <1>7, SetType, RaiseType

LEMMA ReadingType ==
  ASSUME NEW r \in Run, MarketType, ProcInv,
         \/ ForwardGate(r) \/ Pin(r) \/ ReadSessions(r) \/ CheckFormation(r)
         \/ ReadFormation(r) \/ ReadTarget(r)
  PROVE  ProcInv'
<1>1. job[r] \in JobType /\ Holding(r)
  BY DEF ProcInv, ProcType
<1>2. CASE ForwardGate(r)
  <2>1. "pin" \in Label /\ "pin" \notin WithEvidence /\ "pin" \notin WithPin
    BY DEF Label, WithEvidence, WithPin
  <2> QED BY <1>2, <2>1, GotoType, RaiseType DEF ForwardGate
<1>3. CASE Pin(r)
  <2> DEFINE j == [job[r] EXCEPT !.pin = DatasetVersion]
  <2>1. DatasetVersion \in [Security -> History]
    BY DEF MarketType, DatasetVersion
  <2>2. j \in JobType /\ j.pin = DatasetVersion
    BY <1>1, <2>1 DEF JobType
  <2>3. Moves(r, "sessions", j)
    BY <2>1, <2>2 DEF Moves, Label, WithEvidence, WithPin
  <2> QED BY <1>3, <2>3, SetType DEF Pin
<1>4. CASE ReadSessions(r)
  <2> DEFINE latest == rows[Benchmark].upto
             j == [job[r] EXCEPT !.latest = latest]
  <2>1. latest \in 0..LastSession
    BY MarketFacts, Bounds DEF Session
  <2>2. j \in JobType /\ j.pin = job[r].pin
    BY <1>1, <2>1 DEF JobType
  <2>3. Moves(r, "formed", j)
    BY <1>1, <1>4, <2>2 DEF Moves, Label, WithEvidence, WithPin, ReadSessions, At, Holding
  <2> QED BY <1>4, <2>3, SetType, RaiseType DEF ReadSessions
<1>5. CASE CheckFormation(r)
  <2>1. \A label \in {"formations", "closes"} :
          label \in Label /\ label \notin WithEvidence /\ label \in WithPin
    BY DEF Label, WithEvidence, WithPin
  <2>2. pc[r] \in WithPin
    BY <1>5 DEF CheckFormation, At, WithPin
  <2> QED BY <1>5, <2>1, <2>2, GotoType DEF CheckFormation
<1>6. ASSUME NEW session, NEW label \in {"bind", "bindOutcome"},
             ReadEvidence(r, session), Goto(r, label), pc[r] \in WithPin
      PROVE  ProcInv'
  <2> DEFINE j == [job[r] EXCEPT !.evidence = Read(session)]
  <2>1. j \in JobType /\ j.evidence = Read(session) /\ j.pin = job[r].pin
    BY <1>1, ReadType DEF JobType
  <2>2. Moves(r, label, j)
    BY <1>1, <1>6, <2>1, ReadType DEF Moves, Label, Holding
  <2> QED BY <1>6, <2>2, SetType DEF ReadEvidence
<1>7. CASE ReadFormation(r)
  BY <1>6, <1>7, RaiseType DEF ReadFormation, At, WithPin
<1>8. CASE ReadTarget(r)
  BY <1>6, <1>8 DEF ReadTarget, At, WithPin
<1> QED BY <1>2, <1>3, <1>4, <1>5, <1>7, <1>8

\* The transactions of the ledger and the reads around them.
LEMMA WritingType ==
  ASSUME NEW r \in Run, MarketType, LedgerType, ProcInv,
         \/ BindFormation(r) \/ WriteFormation(r) \/ ReadFormations(r)
         \/ ReadOutcomes(r) \/ ReadMaturities(r) \/ WriteMaturity(r)
         \/ BindOutcome(r) \/ QualifyOutcome(r) \/ WriteOutcome(r)
         \/ WriteGaps(r)
  PROVE  LedgerType' /\ ProcInv'
<1>1. job[r] \in JobType /\ Holding(r) /\ job[r].due \subseteq Pair
      /\ job[r].latest \in 0..LastSession
  BY DEF ProcInv, ProcType, JobType
<1>2. UNCHANGED ledgerVars => LedgerType'
  BY DEF ledgerVars, LedgerType
<1>3. CASE BindFormation(r)
  BY <1>2, <1>3, BindType DEF BindFormation, Bind, ReadsOnly, At, WithEvidence, WithPin
<1>4. CASE BindOutcome(r)
  BY <1>2, <1>4, BindType DEF BindOutcome, Bind, ReadsOnly, At, WithEvidence, WithPin
<1>5. ASSUME NEW j \in JobType, NEW label \in Label \ WithEvidence, Goto(r, label),
             Set(r, j), j.pin = job[r].pin, pc[r] \in WithPin
      PROVE  ProcInv'
  <2>1. Moves(r, label, j)
    BY <1>1, <1>5 DEF Moves, Holding
  <2> QED BY <1>5, <2>1, SetType
<1>6. CASE WriteFormation(r)
  <2>1. job[r].evidence \in Evidence /\ pc[r] \in WithPin
    BY <1>1, <1>6 DEF WriteFormation, At, Holding, WithEvidence, WithPin
  <2>2. CASE FormationConflict(job[r].latest)
    BY <1>2, <1>6, <2>2, RaiseType DEF WriteFormation
  <2>3. CASE ~FormationConflict(job[r].latest)
    <3> DEFINE j == [job[r] EXCEPT !.evidence = Missing]
    <3>1. j \in JobType /\ j.pin = job[r].pin
      BY <1>1 DEF JobType
    <3>2. RecordFormation(job[r].latest, job[r].evidence) /\ Goto(r, "formations") /\ Set(r, j)
      BY <1>6, <2>3 DEF WriteFormation
    <3>3. LedgerType'
      BY <2>1, <3>2 DEF LedgerType, RecordFormation
    <3>4. "formations" \in Label \ WithEvidence
      BY DEF Label, WithEvidence
    <3> HIDE DEF j
    <3> QED BY <1>5, <2>1, <3>1, <3>2, <3>3, <3>4
  <2> QED BY <2>2, <2>3
<1>7. CASE ReadFormations(r)
  <2> DEFINE j == [job[r] EXCEPT !.formed = Formed]
  <2>1. j \in JobType /\ j.pin = job[r].pin
    BY <1>1 DEF JobType, Formed
  <2>2. "outcomes" \in Label \ WithEvidence /\ pc[r] \in WithPin
    BY <1>7 DEF Label, WithEvidence, ReadFormations, At, WithPin
  <2> QED BY <1>2, <1>5, <1>7, <2>1, <2>2 DEF ReadFormations, ReadsOnly
<1>8. CASE ReadOutcomes(r)
  <2> DEFINE j == [job[r] EXCEPT !.due = Due(job[r].formed, job[r].latest) \ Outcomes]
  <2>1. j \in JobType /\ j.pin = job[r].pin
    BY <1>1 DEF JobType, Due
  <2>2. "maturities" \in Label \ WithEvidence /\ pc[r] \in WithPin
    BY <1>8 DEF Label, WithEvidence, ReadOutcomes, At, WithPin
  <2> QED BY <1>2, <1>5, <1>8, <2>1, <2>2 DEF ReadOutcomes, ReadsOnly
<1>9. CASE ReadMaturities(r)
  <2> DEFINE j == [job[r] EXCEPT !.known = matured]
  <2>1. j \in JobType /\ j.pin = job[r].pin
    BY <1>1 DEF JobType, LedgerType
  <2>2. "pairs" \in Label \ WithEvidence /\ pc[r] \in WithPin
    BY <1>9 DEF Label, WithEvidence, ReadMaturities, At, WithPin
  <2> QED BY <1>2, <1>5, <1>9, <2>1, <2>2 DEF ReadMaturities, ReadsOnly
<1>10. CASE WriteMaturity(r)
  <2>1. PICK pair \in job[r].due :
          IF pair \in job[r].known
            THEN Goto(r, "target") /\ UNCHANGED <<job, ledgerVars>>
            ELSE IF MaturityConflict(pair)
                   THEN Raise(r) /\ UNCHANGED ledgerVars
                   ELSE RecordMaturity(pair) /\ Goto(r, "target") /\ UNCHANGED job
    BY <1>10 DEF WriteMaturity
  <2>2. "target" \in Label /\ "target" \notin WithEvidence /\ pc[r] \in WithPin
    BY <1>10 DEF Label, WithEvidence, WriteMaturity, At, WithPin
  <2>3. Goto(r, "target") /\ UNCHANGED job => ProcInv'
    BY <2>2, GotoType
  <2>4. RecordMaturity(pair) => LedgerType'
    BY <1>1 DEF LedgerType, RecordMaturity
  <2> QED BY <1>2, <2>1, <2>3, <2>4, RaiseType
<1>11. CASE QualifyOutcome(r)
  <2>1. (Goto(r, "outcome") /\ UNCHANGED job) \/ Raise(r)
    BY <1>11 DEF QualifyOutcome
  <2>2. "outcome" \in Label /\ pc[r] \in WithEvidence /\ pc[r] \in WithPin
    BY <1>11 DEF Label, WithEvidence, QualifyOutcome, At, WithPin
  <2> QED BY <1>2, <1>11, <2>1, <2>2, GotoType, RaiseType DEF QualifyOutcome, ReadsOnly
<1>12. CASE WriteOutcome(r)
  <2>1. job[r].evidence \in Evidence /\ pc[r] \in WithPin
    BY <1>1, <1>12 DEF WriteOutcome, At, Holding, WithEvidence, WithPin
  <2>2. PICK pair \in job[r].due :
          IF OutcomeConflict(pair)
            THEN Raise(r) /\ UNCHANGED ledgerVars
            ELSE /\ RecordOutcome(pair, job[r].evidence)
                 /\ Goto(r, "pairs")
                 /\ Set(r, [job[r] EXCEPT !.due = @ \ {pair}, !.evidence = Missing])
    BY <1>12 DEF WriteOutcome
  <2> DEFINE j == [job[r] EXCEPT !.due = @ \ {pair}, !.evidence = Missing]
  <2>3. j \in JobType /\ j.pin = job[r].pin
    BY <1>1 DEF JobType
  <2>4. "pairs" \in Label \ WithEvidence
    BY DEF Label, WithEvidence
  <2>5. RecordOutcome(pair, job[r].evidence) => LedgerType'
    BY <1>1, <2>1 DEF LedgerType, RecordOutcome
  <2> HIDE DEF j
  <2>6. RecordOutcome(pair, job[r].evidence) /\ Goto(r, "pairs") /\ Set(r, j)
          => LedgerType' /\ ProcInv'
    BY <1>5, <2>1, <2>3, <2>4, <2>5
  <2> QED BY <1>2, <2>2, <2>6, RaiseType DEF j
<1>13. CASE WriteGaps(r)
  <2>1. Unformed(job[r].latest, job[r].formed) \subseteq Session
    BY <1>1, Bounds DEF Unformed, Session
  <2>2. LedgerType'
    BY <1>13, <2>1 DEF WriteGaps, LedgerType, RecordGaps
  <2>3. Moves(r, "lifecycle", Idle)
    BY IdleType DEF Moves, Label, WithEvidence, WithPin
  <2> QED BY <1>13, <2>2, <2>3, SetType DEF WriteGaps
<1> QED BY <1>3, <1>4, <1>6, <1>7, <1>8, <1>9, <1>10, <1>11, <1>12, <1>13

-----------------------------------------------------------------------------
(* The other stages, and the end of a run. *)

LEMMA StageType ==
  ASSUME NEW r \in Run, MarketType, ProcInv, OperationType,
         \/ CheckProvenance(r) \/ CheckSession(r) \/ SkipStage(r)
         \/ EnterLifecycle(r) \/ Trade(r) \/ Scan(r),
         acted' = acted \/ Trade(r), UNCHANGED <<skips, faults>>
  PROVE  ProcInv' /\ OperationType'
<1>1. \A label \in {"session", "lifecycle", "gate", "trade", "scanner"} :
        label \in Label /\ label \notin WithEvidence /\ label \notin WithPin
  BY DEF Label, WithEvidence, WithPin
<1>2. OperationType'
  <2>1. rows[Benchmark].upto \in Session
    BY MarketFacts, Bounds
  <2> QED BY <2>1 DEF Trade, OperationType
<1>3. CASE CheckProvenance(r)
  BY <1>1, <1>2, <1>3, GotoType, StopType DEF CheckProvenance
<1>4. CASE CheckSession(r)
  <2>1. CASE Complete
    <3>1. Stop(r, "integrity", ~Complete) => Stop(r, "integrity", FALSE)
      BY <2>1 DEF Stop
    <3> QED BY <1>1, <1>2, <1>4, <3>1, GotoType, StopType DEF CheckSession
  <2>2. CASE ~Complete
    <3>1. Stop(r, "integrity", ~Complete) => Stop(r, "integrity", TRUE)
      BY <2>2 DEF Stop
    <3> QED BY <1>1, <1>2, <1>4, <3>1, GotoType, StopType DEF CheckSession
  <2> QED BY <2>1, <2>2
<1>5. CASE EnterLifecycle(r)
  BY <1>1, <1>2, <1>5, GotoType, StopType DEF EnterLifecycle
<1>6. CASE Trade(r)
  BY <1>1, <1>2, <1>6, GotoType DEF Trade
<1>7. CASE Scan(r)
  <2>1. Stop(r, "scanner", TRUE) \/ Stop(r, "scanner", FALSE)
    BY <1>7, Zenon DEF Scan, Stop
  <2> QED BY <1>2, <2>1, StopType
<1>8. CASE SkipStage(r)
  BY <1>1, <1>2, <1>8, GotoType, StopType DEF SkipStage
<1> QED BY <1>3, <1>4, <1>5, <1>6, <1>7, <1>8

LEMMA IdleMoves ==
  ASSUME NEW r \in Run, ProcInv, Goto(r, "left"), Set(r, Idle)
  PROVE  ProcInv'
<1>1. Moves(r, "left", Idle)
  BY IdleType DEF Moves, Label, WithEvidence, WithPin
<1> QED BY <1>1, SetType

\* The statuses that are ever recorded.
LEMMA StatusSteps ==
  ASSUME NEW r \in Run, HistoryType,
         \/ \E how : BeginRun(r, how)
         \/ \E how : Leave(r, how)
         \/ \E last, ok : RecordSteps(r, last, ok)
         \/ FinishRun(r) \/ LoseRecorder(r)
  PROVE  HistoryType'
<1>1. StatusOf(exit[r]) \in Terminal
  BY DEF StatusOf, Terminal
<1> QED
  BY <1>1 DEF HistoryType, BeginRun, Leave, RecordSteps, FinishRun, LoseRecorder

LEMMA RunStepType ==
  ASSUME NEW r \in Run, TypeInv, RunStep(r)
  PROVE  TypeInv'
<1>1. ProcInv
  BY DEF TypeInv, ProcInv
<1>2. CASE UpdateStage(r) /\ UNCHANGED <<acted, claim, historyVars, skips, faults>>
  <2>1. UNCHANGED ledgerVars
    BY <1>2 DEF UpdateStage, Fetch, Reconcile, Decide, Finish, Steady
  <2> QED BY <1>1, <1>2, <2>1, UpdateType
          DEF TypeInv, ProcInv, historyVars, HistoryType, OperationType, ledgerVars, LedgerType
<1>3. CASE ForwardStage(r) /\ UNCHANGED <<acted, claim, historyVars, skips, faults>>
  <2>1. UNCHANGED marketVars
    BY <1>3 DEF ForwardStage, ForwardGate, Pin, ReadSessions, CheckFormation,
         ReadFormation, BindFormation, Bind, WriteFormation, ReadFormations,
         ReadOutcomes, ReadMaturities, WriteMaturity, ReadTarget, BindOutcome,
         QualifyOutcome, WriteOutcome, WriteGaps, ReadsOnly
  <2>2. CASE \/ ForwardGate(r) \/ Pin(r) \/ ReadSessions(r) \/ CheckFormation(r)
             \/ ReadFormation(r) \/ ReadTarget(r)
    <3>1. UNCHANGED ledgerVars
      BY <2>2 DEF ForwardGate, Pin, ReadSessions, CheckFormation, ReadFormation,
           ReadTarget, ReadsOnly
    <3> QED BY <1>1, <1>3, <2>1, <2>2, <3>1, ReadingType
          DEF TypeInv, ProcInv, historyVars, HistoryType, OperationType, ledgerVars,
              LedgerType, marketVars, MarketType
  <2>3. CASE ~(\/ ForwardGate(r) \/ Pin(r) \/ ReadSessions(r) \/ CheckFormation(r)
               \/ ReadFormation(r) \/ ReadTarget(r))
    <3>1. LedgerType' /\ ProcInv'
      BY <1>1, <1>3, <2>3, WritingType DEF ForwardStage, TypeInv
    <3> QED BY <1>3, <2>1, <3>1
          DEF TypeInv, ProcInv, historyVars, HistoryType, OperationType, marketVars, MarketType
  <2> QED BY <2>2, <2>3
<1>4. CASE /\ \/ CheckProvenance(r) \/ CheckSession(r) \/ SkipStage(r)
              \/ EnterLifecycle(r) \/ Scan(r) \/ Trade(r)
           /\ acted' = acted \/ Trade(r)
           /\ UNCHANGED <<historyVars, skips, faults>>
  <2>1. UNCHANGED <<marketVars, ledgerVars>>
    BY <1>4 DEF CheckProvenance, CheckSession, SkipStage, EnterLifecycle, Scan, Trade,
                Steady
  <2>2. ProcInv' /\ OperationType'
    BY <1>1, <1>4, StageType DEF TypeInv
  <2> QED BY <1>4, <2>1, <2>2
        DEF TypeInv, ProcInv, historyVars, HistoryType, ledgerVars, LedgerType,
            marketVars, MarketType
<1>5. CASE Report(r)
  <2>1. "exit" \in Label /\ "exit" \notin WithEvidence /\ "exit" \notin WithPin
    BY DEF Label, WithEvidence, WithPin
  <2>2. ProcInv'
    BY <1>1, <1>5, <2>1, GotoType DEF Report
  <2> QED BY <1>5, <2>2, StatusSteps
        DEF Report, Steady, TypeInv, ProcInv, OperationType, operationVars, ledgerVars,
            LedgerType, marketVars, MarketType
<1>6. CASE Return(r)
  BY <1>1, <1>6, StatusSteps, IdleMoves
     DEF Return, Steady, TypeInv, ProcInv, OperationType, operationVars, ledgerVars,
         LedgerType, marketVars, MarketType
<1> QED BY <1>2, <1>3, <1>4, <1>5, <1>6 DEF RunStep, StageStep

LEMMA FaultType ==
  ASSUME NEW r \in Run, TypeInv, Fault(r)
  PROVE  TypeInv'
<1>1. ProcInv
  BY DEF TypeInv, ProcInv
<1>2. OperationType'
  BY FaultAssumption DEF Fault, TypeInv, OperationType
<1>3. CASE FetchFails(r) /\ UNCHANGED historyVars
  BY <1>1, <1>2, <1>3, UpdateType
     DEF FetchFails, Steady, TypeInv, ProcInv, historyVars, HistoryType, ledgerVars, LedgerType
<1>4. CASE StageFails(r) /\ UNCHANGED historyVars
  <2>1. ProcInv'
    BY <1>1, <1>4, StopType DEF StageFails
  <2> QED BY <1>2, <1>4, <2>1
     DEF StageFails, Steady, TypeInv, ProcInv, historyVars, HistoryType, ledgerVars,
         LedgerType, marketVars, MarketType
<1>5. CASE /\ \E how : Leave(r, how)
           /\ Goto(r, "left") /\ Set(r, Idle)
           /\ Steady
  BY <1>1, <1>2, <1>5, StatusSteps, IdleMoves
     DEF Steady, TypeInv, ProcInv, ledgerVars, LedgerType, marketVars, MarketType
<1>6. CASE LoseRecorder(r) /\ UNCHANGED procVars /\ Steady
  BY <1>2, <1>6, StatusSteps
     DEF Steady, TypeInv, ledgerVars, LedgerType, marketVars, MarketType, procVars,
         ProcType, Holding
<1> QED BY <1>3, <1>4, <1>5, <1>6 DEF Fault

LEMMA TypeInit == Init => TypeInv
<1> SUFFICES ASSUME Init PROVE TypeInv
  OBVIOUS
<1>1. [upto |-> FirstToday - 1, scale |-> 0, rebase |-> 0] \in History
  BY Bounds DEF History
<1>2. MarketType
  BY <1>1, Bounds DEF Init, MarketInit, MarketType
<1>3. [priced |-> Security, closes |-> [sec \in Security |-> 0],
       bound |-> [sec \in Security |-> 0]] \in Evidence
  BY Bounds DEF Evidence
<1>4. LedgerType
  BY <1>3 DEF Init, LedgerInit, LedgerType
<1>5. ProcType /\ \A r \in Run : Holding(r)
  BY IdleType DEF Init, ProcType, Holding, Label, WithEvidence, WithPin
<1>6. HistoryType /\ OperationType
  BY FaultAssumption DEF Init, HistoryInit, HistoryType, OperationType, Skippable
<1> QED BY <1>2, <1>4, <1>5, <1>6 DEF TypeInv

LEMMA TypeStep == TypeInv /\ [Next]_vars => TypeInv'
<1> SUFFICES ASSUME TypeInv, [Next]_vars PROVE TypeInv'
  OBVIOUS
<1>1. ASSUME NEW r \in Run, NEW how, Launch(r, how) PROVE TypeInv'
  <2>1. PICK skip \in SkipOptions :
          /\ skips' = [skips EXCEPT ![r] = skip] /\ Goto(r, "update")
          /\ Set(r, [Idle EXCEPT !.todo = IF "update" \in skip THEN {} ELSE Security])
    BY <1>1 DEF Launch
  <2> DEFINE j == [Idle EXCEPT !.todo = IF "update" \in skip THEN {} ELSE Security]
  <2>2. j \in JobType
    BY IdleType DEF JobType
  <2>3. Moves(r, "update", j)
    BY <2>2 DEF Moves, Label, WithEvidence, WithPin
  <2>4. ProcInv'
    BY <2>1, <2>3, SetType DEF TypeInv, ProcInv
  <2>5. OperationType'
    BY <1>1, <2>1, SkipAssumption DEF Launch, TypeInv, OperationType
  <2> QED BY <1>1, <2>4, <2>5, StatusSteps
        DEF Launch, Steady, TypeInv, ProcInv, ledgerVars, LedgerType, marketVars,
            MarketType
<1>2. ASSUME NEW r \in Run, Record(r) PROVE TypeInv'
  BY <1>2, StatusSteps
     DEF Record, Steady, TypeInv, ProcType, Holding, procVars, OperationType, operationVars,
         ledgerVars, LedgerType, marketVars, MarketType
<1>3. ASSUME UNCHANGED <<ledgerVars, procVars, historyVars, operationVars>>, MarketType'
      PROVE  TypeInv'
  BY <1>3 DEF TypeInv, ledgerVars, LedgerType, procVars, ProcType, Holding, historyVars,
              HistoryType, operationVars, OperationType
<1>4. CASE Operator
  BY <1>3, <1>4, SettleType, RebaseType DEF Operator, TypeInv
<1>5. CASE Environment
  BY <1>3, <1>5, EnvironmentType DEF Environment, TypeInv
<1>6. CASE UNCHANGED vars
  BY <1>3, <1>6 DEF vars, marketVars, MarketType, TypeInv
<1>7. ASSUME NEW r \in Run, RunStep(r) \/ Fault(r) PROVE TypeInv'
  BY <1>7, RunStepType, FaultType
<1> QED BY <1>1, <1>2, <1>4, <1>5, <1>6, <1>7 DEF Next

\* Type correctness of the daily operation, for any constants.
THEOREM DailyTypesCorrect == Spec => []DailyTypeOK
<1>1. TypeInv => DailyTypeOK
  BY DEF TypeInv, DailyTypeOK, MarketType, LedgerType, ProcType, HistoryType, OperationType
<1> QED BY <1>1, TypeInit, TypeStep, PTL DEF Spec

-----------------------------------------------------------------------------
(* One price basis.  Rebases are numbered, so what is bound to the number  *)
(* of the last finalised rebase of a security was read at its scale.  This *)
(* holds from the bind on; between the read and the bind it holds if the   *)
(* pinned version is still current and no rebase is in flight, which is    *)
(* what bind checks.                                                       *)

\* Rows are never behind the log, and only a rebase changes the scale.
RowsLead(stored, log) ==
  \A sec \in Security :
    /\ log[sec].rebase <= stored[sec].rebase /\ log[sec].upto <= stored[sec].upto
    /\ log[sec].rebase = stored[sec].rebase => log[sec].scale = stored[sec].scale

\* A version of the log, and a later one.
Grows(old, new) == RowsLead(new, old)
AtMost(pin, log) ==
  \A sec \in Security : pin[sec].rebase <= log[sec].rebase /\ pin[sec].upto <= log[sec].upto

\* Evidence that is bound.
FaithfulTo(e, log) ==
  \A sec \in e.priced :
    /\ e.bound[sec] <= log[sec].rebase
    /\ e.bound[sec] = log[sec].rebase => e.closes[sec] = log[sec].scale

\* Evidence that is read and not bound yet.
InFlight(e, pin, stored, log) ==
  pin = log =>
    \A sec \in e.priced :
      e.closes[sec] = log[sec].scale \/ stored[sec].rebase # log[sec].rebase

Bound == {"record", "qualify", "outcome"}
Fits(label, j, stored, log) ==
  /\ label \in Bound => FaithfulTo(j.evidence, log)
  /\ label \in WithPin => AtMost(j.pin, log)
  /\ label \in {"bind", "bindOutcome"} => InFlight(j.evidence, j.pin, stored, log)

LedgerFaithful(log) ==
  /\ \A s \in Formed : FaithfulTo(formation[s], log)
  /\ \A pair \in Outcomes : FaithfulTo(outcome[pair], log)

BasisInv ==
  /\ RowsLead(rows, logged)
  /\ LedgerFaithful(logged)
  /\ \A r \in Run : Fits(pc[r], job[r], rows, logged)

\* How a step may change the stored and the finalised rows.
SettlesRows(sec) == rows' = rows /\ logged' = [logged EXCEPT ![sec] = rows[sec]]
AppendsRows(sec) ==
  /\ rows[sec] = logged[sec] /\ logged' = logged
  /\ \E u \in Session : u > rows[sec].upto /\ rows' = [rows EXCEPT ![sec].upto = u]
RebasesRows(sec) ==
  /\ rows[sec] = logged[sec] /\ logged' = logged
  /\ \E c : rows' = [rows EXCEPT ![sec].scale = c, ![sec].rebase = @ + 1]
MarketMoves ==
  \/ UNCHANGED <<rows, logged>>
  \/ \E sec \in Security : SettlesRows(sec) \/ AppendsRows(sec) \/ RebasesRows(sec)

LEMMA HistoryFacts ==
  ASSUME NEW h \in [Security -> History], NEW sec \in Security
  PROVE  /\ h[sec] \in History /\ h[sec].upto \in Nat /\ h[sec].rebase \in Nat
         /\ h[sec] = [upto |-> h[sec].upto, scale |-> h[sec].scale, rebase |-> h[sec].rebase]
BY Bounds DEF History

LEMMA Histories ==
  ASSUME MarketType
  PROVE  \A sec \in Security :
           /\ rows[sec].upto \in Nat /\ rows[sec].rebase \in Nat
           /\ logged[sec].upto \in Nat /\ logged[sec].rebase \in Nat
BY HistoryFacts DEF MarketType

LEMMA RowsLeadKept ==
  ASSUME MarketType, MarketType', RowsLead(rows, logged), MarketMoves
  PROVE  RowsLead(rows', logged')
<1>1. rows \in [Security -> History] /\ logged \in [Security -> History]
  BY DEF MarketType
<1> SUFFICES ASSUME NEW sec \in Security
             PROVE  /\ logged'[sec].rebase <= rows'[sec].rebase
                    /\ logged'[sec].upto <= rows'[sec].upto
                    /\ logged'[sec].rebase = rows'[sec].rebase
                         => logged'[sec].scale = rows'[sec].scale
  BY DEF RowsLead
<1>2. /\ rows[sec].upto \in Nat /\ rows[sec].rebase \in Nat
      /\ logged[sec].upto \in Nat /\ logged[sec].rebase \in Nat
  BY Histories
<1>3. /\ logged[sec].rebase <= rows[sec].rebase /\ logged[sec].upto <= rows[sec].upto
      /\ logged[sec].rebase = rows[sec].rebase => logged[sec].scale = rows[sec].scale
  BY DEF RowsLead
<1>4. CASE rows'[sec] = rows[sec] /\ logged'[sec] = logged[sec]
  BY <1>3, <1>4
<1>5. CASE rows'[sec] = rows[sec] /\ logged'[sec] = rows[sec]
  BY <1>2, <1>5
<1>6. CASE AppendsRows(sec)
  <2>1. PICK u \in Session : u > rows[sec].upto /\ rows' = [rows EXCEPT ![sec].upto = u]
    BY <1>6 DEF AppendsRows
  <2>2. rows'[sec].rebase = rows[sec].rebase /\ rows'[sec].scale = rows[sec].scale
        /\ rows'[sec].upto = u /\ logged'[sec] = rows[sec]
    BY <1>1, <1>6, <2>1 DEF History, AppendsRows
  <2>3. u \in Nat
    BY Bounds
  <2> QED BY <1>2, <2>1, <2>2, <2>3
<1>7. CASE RebasesRows(sec)
  <2>1. PICK c : rows' = [rows EXCEPT ![sec].scale = c, ![sec].rebase = @ + 1]
    BY <1>7 DEF RebasesRows
  <2>2. rows'[sec].rebase = rows[sec].rebase + 1 /\ rows'[sec].upto = rows[sec].upto
        /\ logged'[sec] = rows[sec]
    BY <1>1, <1>7, <2>1 DEF History, RebasesRows
  <2> QED BY <1>2, <2>2
<1>8. ASSUME NEW x \in Security, x # sec, SettlesRows(x) \/ AppendsRows(x) \/ RebasesRows(x)
      PROVE  rows'[sec] = rows[sec] /\ logged'[sec] = logged[sec]
  BY <1>1, <1>8 DEF SettlesRows, AppendsRows, RebasesRows
<1>9. SettlesRows(sec) => rows'[sec] = rows[sec] /\ logged'[sec] = rows[sec]
  BY <1>1 DEF SettlesRows
<1> QED BY <1>4, <1>5, <1>6, <1>7, <1>8, <1>9 DEF MarketMoves

\* The log only grows, and never comes back to a version it has left.
LEMMA LogGrows ==
  ASSUME MarketType, MarketType', RowsLead(rows, logged), MarketMoves
  PROVE  Grows(logged, logged')
<1> SUFFICES ASSUME NEW sec \in Security
             PROVE  /\ logged[sec].rebase <= logged'[sec].rebase
                    /\ logged[sec].upto <= logged'[sec].upto
                    /\ logged[sec].rebase = logged'[sec].rebase
                         => logged[sec].scale = logged'[sec].scale
  BY DEF Grows, RowsLead
<1>1. logged'[sec] = logged[sec] \/ logged'[sec] = rows[sec]
  BY DEF MarketMoves, SettlesRows, AppendsRows, RebasesRows, MarketType
<1>2. logged[sec].upto \in Nat /\ logged[sec].rebase \in Nat
  BY Histories
<1> QED BY <1>1, <1>2 DEF RowsLead

LEMMA VersionNeverReturns ==
  ASSUME MarketType, MarketType', RowsLead(rows, logged), MarketMoves,
         NEW pin \in [Security -> History], AtMost(pin, logged), pin = logged'
  PROVE  logged' = logged
<1>1. CASE logged' = logged
  BY <1>1
<1>2. ASSUME NEW x \in Security, SettlesRows(x) PROVE logged' = logged
  <2>1. logged'[x] = rows[x]
    BY <1>2 DEF SettlesRows, MarketType
  <2>2. rows[x].rebase = logged[x].rebase /\ rows[x].upto = logged[x].upto
    <3>1. pin[x] = rows[x]
      BY <2>1
    <3>2. /\ rows[x].upto \in Nat /\ rows[x].rebase \in Nat
          /\ logged[x].upto \in Nat /\ logged[x].rebase \in Nat
      BY Histories
    <3> QED BY <3>1, <3>2 DEF RowsLead, AtMost
  <2>3. rows[x] = logged[x]
    BY <2>2, HistoryFacts DEF MarketType, RowsLead
  <2> QED BY <1>2, <2>3 DEF SettlesRows, MarketType
<1> QED BY <1>1, <1>2 DEF MarketMoves, AppendsRows, RebasesRows

LEMMA RebaseStaysInFlight ==
  ASSUME MarketType, MarketMoves, logged' = logged, NEW sec \in Security,
         rows[sec].rebase # logged[sec].rebase
  PROVE  rows'[sec].rebase # logged'[sec].rebase
<1>1. rows \in [Security -> History]
  BY DEF MarketType
<1>2. ASSUME NEW x \in Security, AppendsRows(x) \/ RebasesRows(x)
      PROVE  rows'[sec] = rows[sec]
  BY <1>1, <1>2 DEF AppendsRows, RebasesRows
<1> QED BY <1>2 DEF MarketMoves, SettlesRows

LEMMA FaithfulKept ==
  ASSUME NEW old \in [Security -> History], NEW new \in [Security -> History],
         Grows(old, new), NEW e \in Evidence, FaithfulTo(e, old)
  PROVE  FaithfulTo(e, new)
<1>1. ASSUME NEW sec \in e.priced
      PROVE  /\ e.bound[sec] <= new[sec].rebase
             /\ e.bound[sec] = new[sec].rebase => e.closes[sec] = new[sec].scale
  <2>1. sec \in Security /\ e.bound[sec] \in Nat
    BY Bounds DEF Evidence
  <2>2. old[sec].rebase \in Nat /\ new[sec].rebase \in Nat
    BY <2>1, HistoryFacts
  <2>3. /\ e.bound[sec] <= old[sec].rebase
        /\ e.bound[sec] = old[sec].rebase => e.closes[sec] = old[sec].scale
    BY DEF FaithfulTo
  <2>4. /\ old[sec].rebase <= new[sec].rebase
        /\ old[sec].rebase = new[sec].rebase => old[sec].scale = new[sec].scale
    BY <2>1 DEF Grows, RowsLead
  <2> QED BY <2>1, <2>2, <2>3, <2>4
<1> QED BY <1>1 DEF FaithfulTo

\* A run that does not move keeps its promise whatever the market does.
LEMMA FitsKept ==
  ASSUME MarketType, MarketType', RowsLead(rows, logged), MarketMoves,
         NEW label, NEW j, Fits(label, j, rows, logged),
         label \in WithEvidence => j.evidence \in Evidence,
         label \in WithPin => j.pin \in [Security -> History]
  PROVE  Fits(label, j, rows', logged')
<1>1. Grows(logged, logged')
  BY LogGrows
<1>2. label \in Bound => FaithfulTo(j.evidence, logged')
  BY <1>1, FaithfulKept DEF Fits, Bound, WithEvidence, MarketType
<1>3. ASSUME label \in WithPin PROVE AtMost(j.pin, logged')
  <2> SUFFICES ASSUME NEW sec \in Security
               PROVE  /\ j.pin[sec].rebase <= logged'[sec].rebase
                      /\ j.pin[sec].upto <= logged'[sec].upto
    BY DEF AtMost
  <2>1. j.pin[sec].upto \in Nat /\ j.pin[sec].rebase \in Nat
    BY <1>3, HistoryFacts
  <2>2. /\ logged[sec].upto \in Nat /\ logged[sec].rebase \in Nat
        /\ logged'[sec].upto \in Nat /\ logged'[sec].rebase \in Nat
    BY HistoryFacts DEF MarketType
  <2>3. j.pin[sec].rebase <= logged[sec].rebase /\ j.pin[sec].upto <= logged[sec].upto
    BY <1>3 DEF Fits, AtMost
  <2>4. logged[sec].rebase <= logged'[sec].rebase /\ logged[sec].upto <= logged'[sec].upto
    BY <1>1 DEF Grows, RowsLead
  <2> QED BY <2>1, <2>2, <2>3, <2>4
<1>4. ASSUME label \in {"bind", "bindOutcome"}
      PROVE  InFlight(j.evidence, j.pin, rows', logged')
  <2> SUFFICES ASSUME j.pin = logged', NEW sec \in j.evidence.priced
               PROVE  \/ j.evidence.closes[sec] = logged'[sec].scale
                      \/ rows'[sec].rebase # logged'[sec].rebase
    BY DEF InFlight
  <2>1. j.evidence \in Evidence /\ j.pin \in [Security -> History] /\ AtMost(j.pin, logged)
    BY <1>4 DEF WithEvidence, WithPin, Fits
  <2>2. logged' = logged
    BY <2>1, VersionNeverReturns
  <2>3. \/ j.evidence.closes[sec] = logged[sec].scale
        \/ rows[sec].rebase # logged[sec].rebase
    BY <1>4, <2>2 DEF Fits, InFlight
  <2>4. sec \in Security
    BY <2>1 DEF Evidence
  <2> QED BY <2>2, <2>3, <2>4, RebaseStaysInFlight
<1> QED BY <1>2, <1>3, <1>4 DEF Fits

\* A run that moves nowhere, or to a place whose promise it keeps.
MovesTo(r, label, j) ==
  pc' = [pc EXCEPT ![r] = label] /\ job' = [job EXCEPT ![r] = j]
Rests(r) == pc'[r] = pc[r] /\ job'[r] = job[r]

LEMMA BasisKept ==
  ASSUME TypeInv, TypeInv', BasisInv, MarketMoves,
         \A s \in Formed' : \/ s \in Formed /\ formation'[s] = formation[s]
                            \/ FaithfulTo(formation'[s], logged'),
         \A pair \in Outcomes' : \/ pair \in Outcomes /\ outcome'[pair] = outcome[pair]
                                 \/ FaithfulTo(outcome'[pair], logged'),
         \A q \in Run : Rests(q) \/ Fits(pc'[q], job'[q], rows', logged')
  PROVE  BasisInv'
<1>1. MarketType /\ MarketType' /\ RowsLead(rows, logged)
  BY DEF TypeInv, BasisInv
<1>2. Grows(logged, logged')
  BY <1>1, LogGrows
<1>3. logged \in [Security -> History] /\ logged' \in [Security -> History]
  BY <1>1 DEF MarketType
<1>4. RowsLead(rows', logged')
  BY <1>1, RowsLeadKept
<1>5. ASSUME NEW s \in Formed' PROVE FaithfulTo(formation'[s], logged')
  <2>1. s \in Formed => formation[s] \in Evidence /\ FaithfulTo(formation[s], logged)
    BY DEF TypeInv, LedgerType, BasisInv, LedgerFaithful, Formed
  <2> QED BY <1>2, <1>3, <2>1, FaithfulKept
<1>6. ASSUME NEW pair \in Outcomes' PROVE FaithfulTo(outcome'[pair], logged')
  <2>1. pair \in Outcomes => outcome[pair] \in Evidence /\ FaithfulTo(outcome[pair], logged)
    BY DEF TypeInv, LedgerType, BasisInv, LedgerFaithful, Outcomes
  <2> QED BY <1>2, <1>3, <2>1, FaithfulKept
<1>7. ASSUME NEW q \in Run PROVE Fits(pc'[q], job'[q], rows', logged')
  <2>1. /\ Fits(pc[q], job[q], rows, logged)
        /\ pc[q] \in WithEvidence => job[q].evidence \in Evidence
        /\ pc[q] \in WithPin => job[q].pin \in [Security -> History]
    BY DEF BasisInv, TypeInv, Holding
  <2>2. Fits(pc[q], job[q], rows', logged')
    BY <1>1, <2>1, FitsKept
  <2> QED BY <2>2 DEF Rests
<1> QED BY <1>4, <1>5, <1>6, <1>7 DEF BasisInv, LedgerFaithful

\* Labels with no pin promise nothing, and most labels with a pin nothing else.
LEMMA FitsEasily ==
  ASSUME NEW label, NEW j, NEW stored, NEW log,
         label \notin WithPin \/ (label \notin WithEvidence /\ AtMost(j.pin, log))
  PROVE  Fits(label, j, stored, log)
BY DEF Fits, WithPin, WithEvidence, Bound

LEMMA ReadFits ==
  ASSUME RowsLead(rows, logged), MarketType, NEW session, NEW pin, AtMost(pin, logged),
         NEW label \in {"bind", "bindOutcome"}, NEW j,
         j.pin = pin, j.evidence = Read(session)
  PROVE  Fits(label, j, rows, logged)
<1>1. InFlight(Read(session), pin, rows, logged)
  BY DEF InFlight, Read, RowsLead
<1> QED BY <1>1 DEF Fits, Bound

LEMMA BoundFits ==
  ASSUME NEW r \in Run, MarketType, NEW session, NEW label \in {"record", "qualify"},
         MayBind(r, session), job[r] \in JobType, job[r].evidence \in Evidence,
         AtMost(job[r].pin, logged),
         InFlight(job[r].evidence, job[r].pin, rows, logged)
  PROVE  Fits(label, [job[r] EXCEPT !.evidence.bound = [sec \in Security |-> logged[sec].rebase]],
              rows, logged)
<1> DEFINE bound == [sec \in Security |-> logged[sec].rebase]
           e == [job[r].evidence EXCEPT !.bound = bound]
           j == [job[r] EXCEPT !.evidence.bound = bound]
<1>1. e.bound = bound /\ e.priced = job[r].evidence.priced /\ e.closes = job[r].evidence.closes
      /\ e.priced \subseteq Security
  BY DEF Evidence
<1>2. j.evidence = e /\ j.pin = job[r].pin
  BY DEF JobType
<1>3. ASSUME NEW sec \in e.priced
      PROVE  e.bound[sec] <= logged[sec].rebase /\ e.closes[sec] = logged[sec].scale
  <2>1. sec \in Security /\ logged[sec].rebase \in Nat
    BY <1>1, Histories
  <2>2. e.bound[sec] = logged[sec].rebase
    BY <1>1, <2>1
  <2>3. ~Claims(sec, session) /\ job[r].pin = logged
    BY <1>1 DEF MayBind, DatasetVersion
  <2>4. rows[sec].rebase = logged[sec].rebase
    BY <2>3 DEF Claims, Open, Rebasing
  <2> QED BY <1>1, <2>1, <2>2, <2>3, <2>4 DEF InFlight
<1>4. FaithfulTo(e, logged)
  BY <1>3 DEF FaithfulTo
<1> HIDE DEF e
<1>5. Fits(label, j, rows, logged)
  BY <1>2, <1>4 DEF Fits
<1> QED BY <1>5

LEMMA ForwardBasis ==
  ASSUME TypeInv, TypeInv', BasisInv, NEW r \in Run, ForwardStage(r)
  PROVE  BasisInv'
<1> DEFINE j0 == job[r]
<1>1. /\ MarketType /\ j0 \in JobType /\ Holding(r) /\ RowsLead(rows, logged)
      /\ Fits(pc[r], j0, rows, logged)
  BY DEF TypeInv, ProcType, BasisInv
<1>2. rows' = rows /\ logged' = logged /\ MarketMoves
  BY DEF ForwardStage, ForwardGate, Pin, ReadSessions, CheckFormation,
     ReadFormation, BindFormation, Bind, WriteFormation, ReadFormations,
     ReadOutcomes, ReadMaturities, WriteMaturity, ReadTarget, BindOutcome,
     QualifyOutcome, WriteOutcome, WriteGaps, ReadsOnly, marketVars, MarketMoves
<1> DEFINE KeepsEvidence ==
      /\ \A s \in Formed' : \/ s \in Formed /\ formation'[s] = formation[s]
                            \/ FaithfulTo(formation'[s], logged')
      /\ \A pair \in Outcomes' : \/ pair \in Outcomes /\ outcome'[pair] = outcome[pair]
                                 \/ FaithfulTo(outcome'[pair], logged')
<1>3. ASSUME NEW label, NEW j, Goto(r, label), Set(r, j), Fits(label, j, rows, logged),
             KeepsEvidence
      PROVE  BasisInv'
  <2>1. ASSUME NEW q \in Run PROVE Rests(q) \/ Fits(pc'[q], job'[q], rows', logged')
    BY <1>2, <1>3 DEF Goto, Set, Rests, TypeInv, ProcType
  <2> HIDE DEF KeepsEvidence
  <2>2. KeepsEvidence
    BY <1>3
  <2> QED BY <1>2, <2>1, <2>2, BasisKept DEF KeepsEvidence
<1>4. ASSUME NEW label, Goto(r, label), UNCHANGED job, Fits(label, j0, rows, logged),
             KeepsEvidence
      PROVE  BasisInv'
  <2>1. Set(r, j0)
    BY <1>4 DEF Set, TypeInv, ProcType
  <2> HIDE DEF KeepsEvidence, j0
  <2> QED BY <1>3, <1>4, <2>1
<1>5. UNCHANGED ledgerVars => KeepsEvidence
  BY DEF ledgerVars, Formed, Outcomes
<1>6. ASSUME Raise(r), KeepsEvidence PROVE BasisInv'
  <2> DEFINE j == [Idle EXCEPT !.stage = "forward", !.failed = TRUE]
  <2>1. Fits("report", j, rows, logged)
    BY FitsEasily DEF WithPin
  <2>2. Goto(r, "report") /\ Set(r, j)
    BY <1>6 DEF Raise, Stop
  <2> HIDE DEF KeepsEvidence, j
  <2> QED BY <1>3, <1>6, <2>1, <2>2
<1> HIDE DEF KeepsEvidence
<1>7. pc[r] \in WithPin => AtMost(j0.pin, logged)
  BY <1>1 DEF Fits
<1>8. CASE ForwardGate(r)
  <2>1. Fits("pin", j0, rows, logged)
    BY FitsEasily DEF WithPin
  <2> QED BY <1>4, <1>5, <1>6, <1>8, <2>1 DEF ForwardGate, ReadsOnly
<1>9. CASE Pin(r)
  <2> DEFINE j == [job[r] EXCEPT !.pin = DatasetVersion]
  <2>1. j.pin = logged
    BY <1>1 DEF JobType, DatasetVersion
  <2>2. AtMost(j.pin, logged)
    BY <1>1, <2>1, Histories DEF AtMost
  <2>3. Fits("sessions", j, rows, logged)
    BY <2>2, FitsEasily DEF WithEvidence
  <2> QED BY <1>3, <1>5, <1>9, <2>3 DEF Pin, ReadsOnly
<1>10. CASE ReadSessions(r)
  <2> DEFINE j == [job[r] EXCEPT !.latest = rows[Benchmark].upto]
  <2>1. j.pin = j0.pin /\ pc[r] \in WithPin
    BY <1>1, <1>10 DEF JobType, ReadSessions, At, WithPin
  <2>2. Fits("formed", j, rows, logged)
    BY <1>7, <2>1, FitsEasily DEF WithEvidence
  <2> QED BY <1>3, <1>5, <1>6, <1>10, <2>2 DEF ReadSessions, ReadsOnly
<1>11. CASE CheckFormation(r)
  <2>1. pc[r] \in WithPin
    BY <1>11 DEF CheckFormation, At, WithPin
  <2>2. Fits("formations", j0, rows, logged) /\ Fits("closes", j0, rows, logged)
    BY <1>7, <2>1, FitsEasily DEF WithEvidence
  <2> QED BY <1>4, <1>5, <1>11, <2>2 DEF CheckFormation, ReadsOnly
<1>12. ASSUME NEW session, NEW label \in {"bind", "bindOutcome"}, pc[r] \in WithPin,
              ReadEvidence(r, session), Goto(r, label), UNCHANGED ledgerVars
       PROVE  BasisInv'
  <2> DEFINE j == [job[r] EXCEPT !.evidence = Read(session)]
  <2>1. j.pin = j0.pin /\ j.evidence = Read(session)
    BY <1>1 DEF JobType
  <2>2. Fits(label, j, rows, logged)
    BY <1>1, <1>7, <1>12, <2>1, ReadFits
  <2> QED BY <1>3, <1>5, <1>12, <2>2 DEF ReadEvidence
<1>13. CASE ReadFormation(r)
  BY <1>5, <1>6, <1>12, <1>13 DEF ReadFormation, ReadsOnly, At, WithPin
<1>14. CASE ReadTarget(r)
  BY <1>12, <1>14 DEF ReadTarget, ReadsOnly, At, WithPin
<1>15. ASSUME NEW session, NEW label \in {"record", "qualify"}, Bind(r, session, label),
              pc[r] \in {"bind", "bindOutcome"}
       PROVE  BasisInv'
  <2> DEFINE j == [job[r] EXCEPT !.evidence.bound = [sec \in Security |-> logged[sec].rebase]]
  <2>1. /\ j0.evidence \in Evidence /\ AtMost(j0.pin, logged)
        /\ InFlight(j0.evidence, j0.pin, rows, logged)
    BY <1>1, <1>15 DEF Holding, Fits, WithEvidence, WithPin
  <2>2. CASE MayBind(r, session)
    <3>1. Fits(label, j, rows, logged)
      BY <1>1, <2>1, <2>2, BoundFits
    <3>2. Goto(r, label) /\ Set(r, j) /\ UNCHANGED ledgerVars
      BY <1>15, <2>2 DEF Bind, ReadsOnly
    <3> HIDE DEF j
    <3> QED BY <1>3, <1>5, <3>1, <3>2
  <2>3. CASE ~MayBind(r, session)
    BY <1>5, <1>6, <1>15, <2>3 DEF Bind, ReadsOnly
  <2> QED BY <2>2, <2>3
<1>16. CASE BindFormation(r)
  BY <1>15, <1>16 DEF BindFormation, At
<1>17. CASE BindOutcome(r)
  BY <1>15, <1>17 DEF BindOutcome, At
<1>18. CASE WriteFormation(r)
  <2>1. j0.evidence \in Evidence /\ FaithfulTo(j0.evidence, logged) /\ pc[r] \in WithPin
    BY <1>1, <1>18 DEF WriteFormation, At, Holding, WithEvidence, Fits, Bound, WithPin
  <2>2. CASE FormationConflict(job[r].latest)
    BY <1>5, <1>6, <1>18, <2>2 DEF WriteFormation
  <2>3. CASE ~FormationConflict(job[r].latest)
    <3> DEFINE j == [job[r] EXCEPT !.evidence = Missing]
    <3>1. /\ RecordFormation(j0.latest, j0.evidence)
          /\ Goto(r, "formations") /\ Set(r, j)
      BY <1>18, <2>3 DEF WriteFormation
    <3>2. j.pin = j0.pin
      BY <1>1 DEF JobType
    <3>3. Fits("formations", j, rows, logged)
      BY <1>7, <2>1, <3>2, FitsEasily DEF WithEvidence
    <3>4. KeepsEvidence
      BY <1>2, <2>1, <3>1 DEF KeepsEvidence, RecordFormation, Formed, Outcomes, TypeInv, LedgerType
    <3> HIDE DEF j
    <3> QED BY <1>3, <3>1, <3>3, <3>4
  <2> QED BY <2>2, <2>3
<1>19. ASSUME NEW label \in WithPin, label \notin WithEvidence, NEW j, j.pin = j0.pin,
              pc[r] \in WithPin, Goto(r, label), Set(r, j), UNCHANGED ledgerVars
       PROVE  BasisInv'
  <2>1. Fits(label, j, rows, logged)
    BY <1>7, <1>19, FitsEasily
  <2> QED BY <1>3, <1>5, <1>19, <2>1
<1>20. CASE ReadFormations(r)
  <2> DEFINE j == [job[r] EXCEPT !.formed = Formed]
  <2>1. j.pin = j0.pin
    BY <1>1 DEF JobType
  <2>2. "outcomes" \in WithPin /\ "outcomes" \notin WithEvidence /\ pc[r] \in WithPin
    BY <1>20 DEF ReadFormations, At, WithPin, WithEvidence
  <2> QED BY <1>19, <1>20, <2>1, <2>2 DEF ReadFormations, ReadsOnly
<1>21. CASE ReadOutcomes(r)
  <2> DEFINE j == [job[r] EXCEPT !.due = Due(job[r].formed, job[r].latest) \ Outcomes]
  <2>1. j.pin = j0.pin
    BY <1>1 DEF JobType
  <2>2. "maturities" \in WithPin /\ "maturities" \notin WithEvidence /\ pc[r] \in WithPin
    BY <1>21 DEF ReadOutcomes, At, WithPin, WithEvidence
  <2> QED BY <1>19, <1>21, <2>1, <2>2 DEF ReadOutcomes, ReadsOnly
<1>22. CASE ReadMaturities(r)
  <2> DEFINE j == [job[r] EXCEPT !.known = matured]
  <2>1. j.pin = j0.pin
    BY <1>1 DEF JobType
  <2>2. "pairs" \in WithPin /\ "pairs" \notin WithEvidence /\ pc[r] \in WithPin
    BY <1>22 DEF ReadMaturities, At, WithPin, WithEvidence
  <2> QED BY <1>19, <1>22, <2>1, <2>2 DEF ReadMaturities, ReadsOnly
<1>23. CASE WriteMaturity(r)
  <2>1. PICK pair \in job[r].due :
          IF pair \in job[r].known
            THEN Goto(r, "target") /\ UNCHANGED <<job, ledgerVars>>
            ELSE IF MaturityConflict(pair)
                   THEN Raise(r) /\ UNCHANGED ledgerVars
                   ELSE RecordMaturity(pair) /\ Goto(r, "target") /\ UNCHANGED job
    BY <1>23 DEF WriteMaturity
  <2>2. pc[r] \in WithPin
    BY <1>23 DEF WriteMaturity, At, WithPin
  <2>3. Fits("target", j0, rows, logged)
    BY <1>7, <2>2, FitsEasily DEF WithEvidence
  <2>4. RecordMaturity(pair) => KeepsEvidence
    BY DEF RecordMaturity, KeepsEvidence, Formed, Outcomes
  <2> QED BY <1>4, <1>5, <1>6, <2>1, <2>3, <2>4
<1>24. CASE QualifyOutcome(r)
  <2>1. (Goto(r, "outcome") /\ UNCHANGED job) \/ Raise(r)
    BY <1>24 DEF QualifyOutcome
  <2>2. FaithfulTo(j0.evidence, logged) /\ AtMost(j0.pin, logged)
    BY <1>1, <1>24 DEF QualifyOutcome, At, Fits, Bound, WithPin
  <2>3. Fits("outcome", j0, rows, logged)
    BY <2>2 DEF Fits
  <2> QED BY <1>4, <1>5, <1>6, <1>24, <2>1, <2>3 DEF QualifyOutcome, ReadsOnly
<1>25. CASE WriteOutcome(r)
  <2>1. PICK pair \in job[r].due :
          IF OutcomeConflict(pair)
            THEN Raise(r) /\ UNCHANGED ledgerVars
            ELSE /\ RecordOutcome(pair, job[r].evidence)
                 /\ Goto(r, "pairs")
                 /\ Set(r, [job[r] EXCEPT !.due = @ \ {pair}, !.evidence = Missing])
    BY <1>25 DEF WriteOutcome
  <2> DEFINE j == [job[r] EXCEPT !.due = @ \ {pair}, !.evidence = Missing]
  <2>2. FaithfulTo(j0.evidence, logged) /\ pc[r] \in WithPin
    BY <1>1, <1>25 DEF WriteOutcome, At, Fits, Bound, WithPin
  <2>3. j.pin = j0.pin
    BY <1>1 DEF JobType
  <2>4. Fits("pairs", j, rows, logged)
    BY <1>7, <2>2, <2>3, FitsEasily DEF WithEvidence
  <2>5. RecordOutcome(pair, j0.evidence) => KeepsEvidence
    BY <1>2, <2>2 DEF RecordOutcome, KeepsEvidence, Formed, Outcomes, TypeInv, LedgerType
  <2> HIDE DEF j
  <2>6. RecordOutcome(pair, j0.evidence) /\ Goto(r, "pairs") /\ Set(r, j) => BasisInv'
    BY <1>3, <2>4, <2>5
  <2> QED BY <1>5, <1>6, <2>1, <2>6 DEF j
<1>26. CASE WriteGaps(r)
  <2>1. Fits("lifecycle", Idle, rows, logged)
    BY FitsEasily DEF WithPin
  <2>2. KeepsEvidence
    BY <1>26 DEF WriteGaps, RecordGaps, KeepsEvidence, Formed, Outcomes
  <2> QED BY <1>3, <1>26, <2>1, <2>2 DEF WriteGaps
<1> QED BY <1>8, <1>9, <1>10, <1>11, <1>13, <1>14, <1>16, <1>17, <1>18, <1>20, <1>21,
           <1>22, <1>23, <1>24, <1>25, <1>26 DEF ForwardStage

\* Outside the forward stage the ledger rests and no run moves to a place where
\* it promises anything.
LEMMA OtherBasis ==
  ASSUME TypeInv, TypeInv', BasisInv, MarketMoves, UNCHANGED ledgerVars,
         \A q \in Run : Rests(q) \/ pc'[q] \notin WithPin
  PROVE  BasisInv'
<1>1. /\ \A s \in Formed' : s \in Formed /\ formation'[s] = formation[s]
      /\ \A pair \in Outcomes' : pair \in Outcomes /\ outcome'[pair] = outcome[pair]
  BY DEF ledgerVars, Formed, Outcomes
<1>2. \A q \in Run : Rests(q) \/ Fits(pc'[q], job'[q], rows', logged')
  BY FitsEasily
<1> QED BY <1>1, <1>2, BasisKept

\* The market steps of an update and of the operator.
LEMMA UpdateMoves ==
  ASSUME TypeInv, NEW r \in Run, UpdateStage(r) \/ FetchFails(r)
  PROVE  /\ MarketMoves /\ UNCHANGED ledgerVars
         /\ UNCHANGED pc /\ pc[r] = "update"
         /\ \A q \in Run : q # r => job'[q] = job[q]
<1>1. job[r] \in JobType /\ (Holds(r) => job[r].batch \in Batch)
  BY DEF TypeInv, ProcType, JobType, Holds
<1>2. Holds(r) => job[r].batch.sec \in Security /\ job[r].batch.upto \in Session
  BY <1>1 DEF Batch
<1>3. UNCHANGED ledgerVars /\ UNCHANGED pc /\ pc[r] = "update"
      /\ \A q \in Run : q # r => job'[q] = job[q]
  BY DEF UpdateStage, Fetch, Reconcile, Decide, Finish, FetchFails, Steady, At, Set, Done,
         TypeInv, ProcType
<1>4. Fetch(r) \/ FetchFails(r) => MarketMoves
  BY DEF Fetch, FetchFails, Steady, marketVars, MarketMoves
<1>5. Reconcile(r) => MarketMoves
  BY <1>2 DEF Reconcile, Settle, MarketMoves, SettlesRows
<1>6. ASSUME Decide(r) PROVE MarketMoves
  <2> DEFINE b == job[r].batch
  <2>1. CASE BlockRevision(b) \/ ConfirmBatch(b)
    BY <2>1 DEF BlockRevision, ConfirmBatch, MarketMoves
  <2>2. CASE CommitAppend(b)
    <3>1. b.sec \in Security /\ b.upto \in Session
      BY <1>2, <1>6 DEF Decide
    <3>2. AppendsRows(b.sec)
      BY <2>2, <3>1 DEF CommitAppend, Appends, Open, AppendsRows
    <3> QED BY <3>1, <3>2 DEF MarketMoves
  <2> QED BY <1>6, <2>1, <2>2 DEF Decide
<1>7. Finish(r) => MarketMoves
  BY <1>2 DEF Finish, FinishAppend, MarketMoves, SettlesRows
<1>8. MarketMoves
  BY <1>4, <1>5, <1>6, <1>7 DEF UpdateStage
<1> QED BY <1>3, <1>8

LEMMA BasisInit == Init => BasisInv
<1> SUFFICES ASSUME Init PROVE BasisInv
  OBVIOUS
<1>1. RowsLead(rows, logged)
  BY Bounds DEF Init, MarketInit, RowsLead
<1>2. ASSUME NEW s \in Formed PROVE FaithfulTo(formation[s], logged)
  <2>1. formation[s] = [priced |-> Security, closes |-> [sec \in Security |-> 0],
                        bound |-> [sec \in Security |-> 0]]
    BY DEF Init, LedgerInit, Formed
  <2> QED BY <2>1 DEF FaithfulTo, Init, MarketInit
<1>3. Outcomes = {}
  BY DEF Init, LedgerInit, Outcomes
<1>4. \A r \in Run : Fits(pc[r], job[r], rows, logged)
  BY FitsEasily DEF Init, WithPin
<1> QED BY <1>1, <1>2, <1>3, <1>4 DEF BasisInv, LedgerFaithful

LEMMA BasisStep == TypeInv /\ TypeInv' /\ BasisInv /\ [Next]_vars => BasisInv'
<1> SUFFICES ASSUME TypeInv, TypeInv', BasisInv, [Next]_vars PROVE BasisInv'
  OBVIOUS
<1>1. ASSUME UNCHANGED <<marketVars, ledgerVars>>,
             \A q \in Run : Rests(q) \/ pc'[q] \notin WithPin
      PROVE  BasisInv'
  <2>1. MarketMoves
    BY <1>1 DEF marketVars, MarketMoves
  <2> QED BY <1>1, <2>1, OtherBasis
<1>2. ASSUME NEW r \in Run, NEW label, label \notin WithPin, Goto(r, label),
             UNCHANGED job \/ \E j : Set(r, j)
      PROVE  \A q \in Run : Rests(q) \/ pc'[q] \notin WithPin
  BY <1>2 DEF Goto, Set, Rests, TypeInv, ProcType
<1>3. ASSUME NEW r \in Run, UpdateStage(r) \/ FetchFails(r) PROVE BasisInv'
  <2>1. \A q \in Run : Rests(q) \/ pc'[q] \notin WithPin
    BY <1>3, UpdateMoves DEF Rests, WithPin
  <2> QED BY <1>3, <2>1, UpdateMoves, OtherBasis
<1>4. ASSUME NEW r \in Run, NEW how, Launch(r, how) PROVE BasisInv'
  <2>1. Goto(r, "update") /\ \E j : Set(r, j)
    BY <1>4 DEF Launch
  <2>2. UNCHANGED <<marketVars, ledgerVars>>
    BY <1>4 DEF Launch, Steady
  <2> QED BY <1>1, <1>2, <2>1, <2>2 DEF WithPin
<1>5. ASSUME NEW r \in Run,
             \/ CheckProvenance(r) \/ CheckSession(r) \/ SkipStage(r)
             \/ EnterLifecycle(r) \/ Trade(r) \/ Scan(r) \/ StageFails(r) \/ Report(r)
      PROVE  BasisInv'
  <2>1. UNCHANGED <<marketVars, ledgerVars>>
    BY <1>5 DEF CheckProvenance, CheckSession, SkipStage, EnterLifecycle, Trade, Scan, StageFails,
                Report, Steady
  <2>2. PICK label \in {"report", "session", "lifecycle", "gate", "trade", "scanner", "exit"} :
          Goto(r, label) /\ (UNCHANGED job \/ \E j : Set(r, j))
    BY <1>5 DEF CheckProvenance, CheckSession, SkipStage, EnterLifecycle, Trade, Scan, StageFails,
                Report, Stop
  <2>3. label \notin WithPin
    BY DEF WithPin
  <2> QED BY <1>1, <1>2, <2>1, <2>2, <2>3
<1>6. ASSUME NEW r \in Run, Goto(r, "left"), Set(r, Idle),
             UNCHANGED <<marketVars, ledgerVars>>
      PROVE  BasisInv'
  <2>1. "left" \notin WithPin
    BY DEF WithPin
  <2> QED BY <1>1, <1>2, <1>6, <2>1
<1>7. ASSUME UNCHANGED <<marketVars, ledgerVars, procVars>> PROVE BasisInv'
  BY <1>1, <1>7 DEF procVars, Rests
<1>8. ASSUME MarketMoves, UNCHANGED <<ledgerVars, procVars>> PROVE BasisInv'
  BY <1>8, OtherBasis DEF procVars, Rests
<1>9. ASSUME NEW r \in Run, RunStep(r) PROVE BasisInv'
  BY <1>3, <1>5, <1>6, <1>9, ForwardBasis DEF RunStep, StageStep, Return, Steady
<1>10. ASSUME NEW r \in Run, Fault(r) PROVE BasisInv'
  BY <1>3, <1>5, <1>6, <1>7, <1>10 DEF Fault, Steady
<1>11. ASSUME NEW r \in Run, Record(r) PROVE BasisInv'
  BY <1>7, <1>11 DEF Record, Steady
<1>12. CASE Operator
  <2>1. ASSUME NEW sec \in Security, CommitRebase(sec) PROVE MarketMoves
    BY <2>1 DEF CommitRebase, Open, MarketMoves, RebasesRows
  <2>2. ASSUME NEW sec \in Security, Settle(sec) PROVE MarketMoves
    BY <2>2 DEF Settle, MarketMoves, SettlesRows
  <2> QED BY <1>8, <1>12, <2>1, <2>2 DEF Operator
<1>13. CASE Environment
  <2>1. MarketMoves
    BY <1>13 DEF Environment, Publish, NextDay, Restate, MarketMoves
  <2> QED BY <1>8, <1>13, <2>1 DEF Environment
<1>14. CASE UNCHANGED vars
  BY <1>7, <1>14 DEF vars
<1> QED BY <1>4, <1>9, <1>10, <1>11, <1>12, <1>13, <1>14 DEF Next

\* Every forward return that is evaluated divides closes of one price scale,
\* whatever is restated, rebased, lost or run at the same time.
THEOREM EvaluationUsesOneBasis == Spec => []IncludedOutcomesUseOneBasis
<1>1. TypeInv /\ BasisInv => IncludedOutcomesUseOneBasis
  <2> SUFFICES ASSUME TypeInv, BasisInv, NEW pair \in Pair, NEW stock \in Stock,
                      Included(pair, stock), NEW sec \in {stock, Benchmark}
               PROVE  outcome[pair].closes[sec] = formation[pair[1]].closes[sec]
    BY DEF IncludedOutcomesUseOneBasis
  <2>1. /\ pair \in Outcomes
        /\ sec \in formation[pair[1]].priced /\ sec \in outcome[pair].priced
        /\ formation[pair[1]].bound[sec] = logged[sec].rebase
        /\ outcome[pair].bound[sec] = logged[sec].rebase
    BY DEF Included, Current
  <2>2. pair[1] \in Session
    BY DEF Pair
  <2>3. pair[1] \in Formed
    BY <2>1, <2>2 DEF Formed, Missing
  <2> QED BY <2>1, <2>3 DEF BasisInv, LedgerFaithful, FaithfulTo
<1>2. TypeInv /\ BasisInv /\ [Next]_vars => (TypeInv /\ BasisInv)'
  BY TypeStep, BasisStep
<1> QED BY <1>1, <1>2, TypeInit, BasisInit, PTL DEF Spec

-----------------------------------------------------------------------------
(* A reported success is real.  Ledger, gaps and traded sessions only grow, *)
(* so what a run has seen done stays done; each program counter of the      *)
(* stages carries what is done by then of the session the run validated.    *)

Success == [last |-> "scanner", ok |-> TRUE]

AfterRead == {"formed", "closes", "bind", "record", "formations", "outcomes", "maturities",
              "pairs", "target", "bindOutcome", "qualify", "outcome"}
AfterFormations == {"outcomes", "maturities", "pairs", "target", "bindOutcome",
                    "qualify", "outcome"}
AfterOutcomes == AfterFormations \ {"outcomes"}
AfterForward == {"lifecycle", "trade", "scanner"}

\* The work of a validated session.
Kept(c) ==
  /\ \A m \in Start + 1 .. c.session : m \in Formed \cup gaps
  /\ Due(c.formed, c.session) \subseteq Outcomes
Traded(c) == \E t \in acted : t >= c.session

\* A run about to report success.
Wins(label, j) == label \in {"report", "exit"} /\ j.stage = "scanner" /\ ~j.failed

GoodAt(label, j, c, skip, st) ==
  /\ c.session <= rows[Benchmark].upto /\ c.formed \subseteq Formed
  /\ label \in AfterRead => c.session <= j.latest
  /\ label \in AfterFormations => c.formed \subseteq j.formed /\ j.formed \subseteq Formed
  /\ label \in AfterOutcomes => Due(j.formed, j.latest) \subseteq j.due \cup Outcomes
  /\ (label \in AfterForward \/ Wins(label, j) \/ st = Success) => ("update" \notin skip => Kept(c))
  /\ (label = "scanner" \/ Wins(label, j) \/ st = Success) =>
       ("lifecycle" \notin skip => Traded(c))
  /\ st = Success => label \in {"exit", "left"}

Claim == [session : 0..LastSession, formed : SUBSET Session]
RunRecords ==
  /\ claim \in [Run -> Claim]
  /\ skips = [r \in Run |-> skips[r]]
  /\ steps = [r \in Run |-> steps[r]]

Good(r) == GoodAt(pc[r], job[r], claim[r], skips[r], steps[r])
DoneInv == RunRecords /\ \A r \in Run : Good(r)

RestsWholly(r) ==
  Rests(r) /\ claim'[r] = claim[r] /\ skips'[r] = skips[r] /\ steps'[r] = steps[r]

Grown ==
  /\ rows[Benchmark].upto <= rows'[Benchmark].upto
  /\ Formed \subseteq Formed' /\ Outcomes \subseteq Outcomes'
  /\ gaps \subseteq gaps' /\ acted \subseteq acted'

\* What is done stays done.
LEMMA GoodKept ==
  ASSUME MarketType, MarketType', Grown, NEW label, NEW j, NEW c \in Claim, NEW skip, NEW st,
         GoodAt(label, j, c, skip, st)
  PROVE  GoodAt(label, j, c, skip, st)'
<1>1. /\ rows[Benchmark].upto \in Nat /\ rows'[Benchmark].upto \in Nat
      /\ c.session \in Nat
  <2>1. rows' \in [Security -> History] /\ Benchmark \in Security
    BY Bounds DEF MarketType
  <2>2. rows'[Benchmark].upto \in Nat
    BY <2>1, HistoryFacts
  <2>3. rows[Benchmark].upto \in Nat
    BY <2>1, Histories
  <2>4. c.session \in Nat
    BY Bounds DEF Claim
  <2> QED BY <2>2, <2>3, <2>4
<1>2. c.session <= rows'[Benchmark].upto /\ c.formed \subseteq Formed'
  BY <1>1 DEF GoodAt, Grown
<1>3. Kept(c) => Kept(c)'
  BY DEF Kept, Grown
<1>4. Traded(c) => Traded(c)'
  BY DEF Traded, Grown
<1> QED BY <1>2, <1>3, <1>4 DEF GoodAt, Grown, Due

LEMMA DoneKept ==
  ASSUME MarketType, MarketType', DoneInv, RunRecords', Grown,
         \A q \in Run : RestsWholly(q) \/ Good(q)'
  PROVE  DoneInv'
<1>1. ASSUME NEW q \in Run, RestsWholly(q) PROVE Good(q)'
  <2>1. Good(q) /\ claim[q] \in Claim
    BY DEF DoneInv, RunRecords
  <2>2. GoodAt(pc[q], job[q], claim[q], skips[q], steps[q])
    BY <2>1 DEF Good
  <2>3. PICK label, j, c, skip, st :
          label = pc[q] /\ j = job[q] /\ c = claim[q] /\ skip = skips[q] /\ st = steps[q]
    OBVIOUS
  <2>4. GoodAt(label, j, c, skip, st)'
    BY <2>1, <2>2, <2>3, GoodKept
  <2>5. label = pc'[q] /\ j = job'[q] /\ c = claim'[q] /\ skip = skips'[q] /\ st = steps'[q]
    BY <1>1, <2>3 DEF RestsWholly, Rests
  <2> QED BY <2>4, <2>5 DEF Good
<1> QED BY <1>1 DEF DoneInv

\* Stored rows, records of the ledger and trades are never taken back.
LEMMA StepMoves == ASSUME TypeInv, [Next]_vars PROVE MarketMoves
<1>1. ASSUME NEW r \in Run, ForwardStage(r) PROVE MarketMoves
  BY <1>1 DEF ForwardStage, ForwardGate, Pin, ReadSessions, CheckFormation,
     ReadFormation, BindFormation, Bind, WriteFormation, ReadFormations,
     ReadOutcomes, ReadMaturities, WriteMaturity, ReadTarget, BindOutcome,
     QualifyOutcome, WriteOutcome, WriteGaps, ReadsOnly, marketVars, MarketMoves
<1>2. UNCHANGED marketVars => MarketMoves
  BY DEF marketVars, MarketMoves
<1>3. ASSUME NEW r \in Run, UpdateStage(r) \/ FetchFails(r) PROVE MarketMoves
  BY <1>3, UpdateMoves
<1>4. ASSUME NEW r \in Run, RunStep(r) PROVE MarketMoves
  BY <1>1, <1>2, <1>3, <1>4 DEF RunStep, StageStep, CheckProvenance, CheckSession,
     SkipStage, EnterLifecycle, Trade, Scan, Report, Return, Steady
<1>5. ASSUME NEW r \in Run, Fault(r) \/ Record(r) \/ \E how : Launch(r, how)
      PROVE  MarketMoves
  BY <1>2, <1>3, <1>5 DEF Fault, StageFails, Record, Launch, Steady
<1>6. ASSUME NEW sec \in Security, CommitRebase(sec) \/ Settle(sec) PROVE MarketMoves
  BY <1>6 DEF CommitRebase, Open, Settle, MarketMoves, RebasesRows, SettlesRows
<1>7. Environment => MarketMoves
  BY DEF Environment, Publish, NextDay, Restate, MarketMoves
<1>8. UNCHANGED vars => MarketMoves
  BY <1>2 DEF vars
<1> QED BY <1>4, <1>5, <1>6, <1>7, <1>8 DEF Next, Operator

LEMMA RowsGrow ==
  ASSUME MarketType, MarketMoves
  PROVE  rows[Benchmark].upto <= rows'[Benchmark].upto
<1>1. rows \in [Security -> History] /\ rows[Benchmark].upto \in Nat
  BY Histories, Bounds DEF MarketType
<1>2. ASSUME NEW sec \in Security, SettlesRows(sec) \/ RebasesRows(sec)
      PROVE  rows'[Benchmark].upto = rows[Benchmark].upto
  <2>1. CASE RebasesRows(sec)
    <3>1. PICK c : rows' = [rows EXCEPT ![sec].scale = c, ![sec].rebase = @ + 1]
      BY <2>1 DEF RebasesRows
    <3>2. rows'[sec].upto = rows[sec].upto
      BY <1>1, <3>1 DEF History
    <3>3. sec # Benchmark => rows'[Benchmark] = rows[Benchmark]
      BY <1>1, <3>1, Bounds
    <3> QED BY <3>2, <3>3
  <2>2. CASE SettlesRows(sec)
    BY <2>2 DEF SettlesRows
  <2> QED BY <1>2, <2>1, <2>2
<1>3. ASSUME NEW sec \in Security, AppendsRows(sec)
      PROVE  rows[Benchmark].upto <= rows'[Benchmark].upto
  <2>1. PICK u \in Session : u > rows[sec].upto /\ rows' = [rows EXCEPT ![sec].upto = u]
    BY <1>3 DEF AppendsRows
  <2>2. u \in Nat
    BY Bounds
  <2> QED BY <1>1, <2>1, <2>2, Bounds DEF History
<1> QED BY <1>1, <1>2, <1>3 DEF MarketMoves

\* A run moves to a place whose work it has done.
LEMMA DoneMoves ==
  ASSUME MarketType, MarketType', DoneInv, Grown, NEW r \in Run, ProcType,
         UNCHANGED <<claim, skips, steps>>, NEW label, NEW j, Goto(r, label), Set(r, j),
         \/ GoodAt(label, j, claim[r], skips[r], steps[r])
         \/ \E c, skip, st : /\ c = claim[r] /\ skip = skips[r] /\ st = steps[r]
                             /\ GoodAt(label, j, c, skip, st)'
  PROVE  DoneInv'
<1>1. PICK c, skip, st : c = claim[r] /\ skip = skips[r] /\ st = steps[r]
  OBVIOUS
<1>2. c \in Claim
  BY <1>1 DEF DoneInv, RunRecords
<1>3. GoodAt(label, j, c, skip, st) => GoodAt(label, j, c, skip, st)'
  BY <1>2, GoodKept
<1>4. GoodAt(label, j, c, skip, st)'
  BY <1>1, <1>3
<1>5. Good(r)'
  <2>1. pc'[r] = label /\ job'[r] = j
    BY DEF Goto, Set, ProcType
  <2>2. claim'[r] = c /\ skips'[r] = skip /\ steps'[r] = st
    BY <1>1
  <2> QED BY <1>4, <2>1, <2>2 DEF Good
<1>6. \A q \in Run : q # r => RestsWholly(q)
  BY DEF Goto, Set, ProcType, RestsWholly, Rests
<1>7. RunRecords'
  BY DEF DoneInv, RunRecords
<1> QED BY <1>5, <1>6, <1>7, DoneKept

\* Places of a run that promise nothing yet.
Silent == {"update", "session", "pin", "sessions", "gate"}
LEMMA SilentGood ==
  ASSUME NEW r \in Run, Good(r), steps[r] # Success, NEW label, NEW j,
         label \in Silent \/ (label \in {"report", "exit"} /\ j.stage # "scanner")
  PROVE  GoodAt(label, j, claim[r], skips[r], steps[r])
BY DEF Good, GoodAt, Silent, AfterRead, AfterFormations, AfterOutcomes, AfterForward, Wins

\* Between two reads a run keeps what it has read.
LEMMA SameGood ==
  ASSUME NEW r \in Run, Good(r), NEW label \in AfterRead, NEW j,
         pc[r] \in AfterRead,
         j.latest = job[r].latest /\ j.formed = job[r].formed /\ j.due = job[r].due,
         label \in AfterFormations => pc[r] \in AfterFormations,
         label \in AfterOutcomes => pc[r] \in AfterOutcomes
  PROVE  GoodAt(label, j, claim[r], skips[r], steps[r])
BY DEF Good, GoodAt, AfterRead, AfterFormations, AfterOutcomes, AfterForward, Wins

LEMMA LedgerGrows ==
  ASSUME UNCHANGED <<ledgerVars, acted>>, rows[Benchmark].upto <= rows'[Benchmark].upto
  PROVE  Grown
BY DEF ledgerVars, Grown, Formed, Outcomes

LEMMA ForwardReadsDone ==
  ASSUME TypeInv, TypeInv', DoneInv, MarketMoves, NEW r \in Run,
         UNCHANGED <<acted, claim, steps, skips>>,
         \/ ForwardGate(r) \/ Pin(r) \/ ReadSessions(r) \/ CheckFormation(r)
         \/ ReadFormation(r) \/ BindFormation(r) \/ ReadFormations(r) \/ ReadOutcomes(r)
         \/ ReadMaturities(r) \/ ReadTarget(r) \/ BindOutcome(r) \/ QualifyOutcome(r)
  PROVE  DoneInv'
<1> DEFINE j0 == job[r]
<1>1. /\ MarketType /\ MarketType' /\ ProcType /\ j0 \in JobType /\ Good(r)
      /\ claim[r] \in Claim
  BY DEF TypeInv, ProcType, DoneInv, RunRecords
<1>2. UNCHANGED ledgerVars
  BY DEF ForwardGate, Pin, ReadSessions, CheckFormation, ReadFormation, BindFormation, Bind,
     ReadFormations, ReadOutcomes, ReadMaturities, ReadTarget, BindOutcome, QualifyOutcome,
     ReadsOnly
<1>3. Grown
  BY <1>1, <1>2, RowsGrow, LedgerGrows
<1>4. steps[r] # Success
  BY <1>1 DEF Good, GoodAt, ForwardGate, Pin, ReadSessions, CheckFormation, ReadFormation,
     BindFormation, ReadFormations, ReadOutcomes, ReadMaturities, ReadTarget, BindOutcome,
     QualifyOutcome, At
<1>5. ASSUME NEW label, NEW j, Goto(r, label), Set(r, j),
             GoodAt(label, j, claim[r], skips[r], steps[r])
      PROVE  DoneInv'
  BY <1>1, <1>3, <1>5, DoneMoves
<1>6. UNCHANGED job => Set(r, j0)
  BY <1>1 DEF Set, ProcType
<1>7. Raise(r) => DoneInv'
  <2> DEFINE j == [Idle EXCEPT !.stage = "forward", !.failed = TRUE]
  <2>1. j.stage = "forward"
    BY DEF Idle
  <2> HIDE DEF j
  <2>2. GoodAt("report", j, claim[r], skips[r], steps[r])
    BY <1>1, <1>4, <2>1, SilentGood
  <2> QED BY <1>5, <2>2 DEF Raise, Stop, j
<1>8. CASE ForwardGate(r)
  <2>1. GoodAt("pin", j0, claim[r], skips[r], steps[r])
    BY <1>1, <1>4, SilentGood DEF Silent
  <2> QED BY <1>5, <1>6, <1>7, <1>8, <2>1 DEF ForwardGate
<1>9. CASE Pin(r)
  <2>1. \A j : GoodAt("sessions", j, claim[r], skips[r], steps[r])
    BY <1>1, <1>4, SilentGood DEF Silent
  <2> QED BY <1>5, <1>9, <2>1 DEF Pin
<1>10. CASE ReadSessions(r)
  <2> DEFINE j == [job[r] EXCEPT !.latest = rows[Benchmark].upto]
  <2>1. j.latest = rows[Benchmark].upto
    BY <1>1 DEF JobType
  <2> HIDE DEF j
  <2>2. GoodAt("formed", j, claim[r], skips[r], steps[r])
    BY <1>1, <1>4, <2>1 DEF Good, GoodAt, AfterFormations, AfterOutcomes, AfterForward, Wins
  <2> QED BY <1>5, <1>7, <1>10, <2>2 DEF ReadSessions, j
<1>11. ASSUME NEW label \in AfterRead, NEW j, Goto(r, label), Set(r, j), pc[r] \in AfterRead,
              j.latest = j0.latest, j.formed = j0.formed, j.due = j0.due,
              label \in AfterFormations => pc[r] \in AfterFormations,
              label \in AfterOutcomes => pc[r] \in AfterOutcomes
       PROVE  DoneInv'
  <2>1. GoodAt(label, j, claim[r], skips[r], steps[r])
    BY <1>1, <1>11, SameGood
  <2> QED BY <1>5, <1>11, <2>1
<1>12. CASE CheckFormation(r)
  BY <1>6, <1>11, <1>12
     DEF CheckFormation, At, AfterRead, AfterFormations, AfterOutcomes
<1>13. ASSUME NEW session, NEW label \in AfterRead, ReadEvidence(r, session), Goto(r, label),
              pc[r] \in AfterRead,
              label \in AfterFormations => pc[r] \in AfterFormations,
              label \in AfterOutcomes => pc[r] \in AfterOutcomes
       PROVE  DoneInv'
  <2> DEFINE j == [job[r] EXCEPT !.evidence = Read(session)]
  <2>1. j.latest = j0.latest /\ j.formed = j0.formed /\ j.due = j0.due
    BY <1>1 DEF JobType
  <2> HIDE DEF j
  <2> QED BY <1>11, <1>13, <2>1 DEF ReadEvidence, j
<1>14. CASE ReadFormation(r)
  BY <1>7, <1>13, <1>14 DEF ReadFormation, At, AfterRead, AfterFormations, AfterOutcomes
<1>15. CASE ReadTarget(r)
  BY <1>13, <1>15 DEF ReadTarget, At, AfterRead, AfterFormations, AfterOutcomes
<1>16. ASSUME NEW session, NEW label \in AfterRead, Bind(r, session, label),
              pc[r] \in AfterRead,
              label \in AfterFormations => pc[r] \in AfterFormations,
              label \in AfterOutcomes => pc[r] \in AfterOutcomes
       PROVE  DoneInv'
  <2> DEFINE j == [job[r] EXCEPT !.evidence.bound = [sec \in Security |-> logged[sec].rebase]]
  <2>1. j.latest = j0.latest /\ j.formed = j0.formed /\ j.due = j0.due
    BY <1>1 DEF JobType
  <2>2. (Goto(r, label) /\ Set(r, j)) \/ Raise(r)
    BY <1>16 DEF Bind
  <2> HIDE DEF j
  <2> QED BY <1>7, <1>11, <1>16, <2>1, <2>2
<1>17. CASE BindFormation(r)
  BY <1>16, <1>17 DEF BindFormation, At, AfterRead, AfterFormations, AfterOutcomes
<1>18. CASE BindOutcome(r)
  BY <1>16, <1>18 DEF BindOutcome, At, AfterRead, AfterFormations, AfterOutcomes
<1>19. CASE QualifyOutcome(r)
  <2>1. (Goto(r, "outcome") /\ UNCHANGED job) \/ Raise(r)
    BY <1>19 DEF QualifyOutcome
  <2> QED BY <1>6, <1>7, <1>11, <1>19, <2>1
          DEF QualifyOutcome, At, AfterRead, AfterFormations, AfterOutcomes
<1>20. CASE ReadFormations(r)
  <2> DEFINE j == [job[r] EXCEPT !.formed = Formed]
  <2>1. j.latest = j0.latest /\ j.formed = Formed
    BY <1>1 DEF JobType
  <2>2. pc[r] = "formations"
    BY <1>20 DEF ReadFormations, At
  <2> HIDE DEF j
  <2>3. GoodAt("outcomes", j, claim[r], skips[r], steps[r])
    BY <1>1, <1>4, <2>1, <2>2
       DEF Good, GoodAt, AfterRead, AfterFormations, AfterOutcomes, AfterForward, Wins
  <2> QED BY <1>5, <1>20, <2>3 DEF ReadFormations, j
<1>21. CASE ReadOutcomes(r)
  <2> DEFINE j == [job[r] EXCEPT !.due = Due(job[r].formed, job[r].latest) \ Outcomes]
  <2>1. /\ j.latest = j0.latest /\ j.formed = j0.formed
        /\ j.due = Due(j0.formed, j0.latest) \ Outcomes
    BY <1>1 DEF JobType
  <2>2. pc[r] = "outcomes"
    BY <1>21 DEF ReadOutcomes, At
  <2> HIDE DEF j
  <2>3. GoodAt("maturities", j, claim[r], skips[r], steps[r])
    BY <1>1, <1>4, <2>1, <2>2
       DEF Good, GoodAt, AfterRead, AfterFormations, AfterOutcomes, AfterForward, Wins
  <2> QED BY <1>5, <1>21, <2>3 DEF ReadOutcomes, j
<1>22. CASE ReadMaturities(r)
  <2> DEFINE j == [job[r] EXCEPT !.known = matured]
  <2>1. j.latest = j0.latest /\ j.formed = j0.formed /\ j.due = j0.due
    BY <1>1 DEF JobType
  <2> HIDE DEF j
  <2> QED BY <1>11, <1>22, <2>1
          DEF ReadMaturities, At, AfterRead, AfterFormations, AfterOutcomes, j
<1> QED BY <1>8, <1>9, <1>10, <1>12, <1>14, <1>15, <1>17, <1>18, <1>19, <1>20, <1>21, <1>22

\* Work that covers a later session and more formations covers the claim.
LEMMA KeptCovers ==
  ASSUME NEW c \in Claim, NEW latest \in 0..LastSession, NEW formed \in SUBSET Session,
         c.session <= latest, c.formed \subseteq formed, formed \subseteq Formed,
         Unformed(latest, formed) \subseteq gaps', Formed' = Formed,
         Due(formed, latest) \subseteq Outcomes'
  PROVE  Kept(c)'
<1>1. c.session \in Nat /\ latest \in Nat
  BY Bounds DEF Claim
<1>2. ASSUME NEW m \in Start + 1 .. c.session PROVE m \in Formed' \cup gaps'
  <2>1. m \in Start + 1 .. latest
    BY <1>1, Bounds
  <2> QED BY <2>1 DEF Unformed
<1>3. ASSUME NEW pair \in Due(c.formed, c.session) PROVE pair \in Outcomes'
  <2>1. pair \in Pair /\ pair[1] \in c.formed /\ Target(pair) <= c.session
    BY DEF Due
  <2>2. Target(pair) \in Nat
    <3>1. pair[1] \in Session /\ pair[2] \in Horizon
      BY <2>1 DEF Pair
    <3>2. pair[1] \in Nat /\ pair[2] \in Nat
      BY <3>1, Bounds, LedgerAssumption
    <3> QED BY <3>2 DEF Target
  <2>3. Target(pair) <= latest
    BY <1>1, <2>1, <2>2
  <2> QED BY <2>1, <2>3 DEF Due
<1> QED BY <1>2, <1>3 DEF Kept

LEMMA ForwardWritesDone ==
  ASSUME TypeInv, TypeInv', DoneInv, MarketMoves, NEW r \in Run,
         UNCHANGED <<acted, claim, steps, skips>>,
         \/ WriteFormation(r) \/ WriteMaturity(r) \/ WriteOutcome(r) \/ WriteGaps(r)
  PROVE  DoneInv'
<1> DEFINE j0 == job[r]
<1>1. /\ MarketType /\ MarketType' /\ LedgerType /\ ProcType /\ j0 \in JobType
      /\ Good(r) /\ Holding(r) /\ claim[r] \in Claim
  BY DEF TypeInv, ProcType, DoneInv, RunRecords
<1>2. rows[Benchmark].upto <= rows'[Benchmark].upto
  BY <1>1, RowsGrow
<1>3. steps[r] # Success
  BY <1>1 DEF Good, GoodAt, WriteFormation, WriteMaturity, WriteOutcome, WriteGaps, At
<1>4. ASSUME NEW label, NEW j, Goto(r, label), Set(r, j), Grown,
             GoodAt(label, j, claim[r], skips[r], steps[r])
      PROVE  DoneInv'
  BY <1>1, <1>4, DoneMoves
<1>5. Raise(r) /\ Grown => DoneInv'
  <2> DEFINE j == [Idle EXCEPT !.stage = "forward", !.failed = TRUE]
  <2>1. j.stage = "forward"
    BY DEF Idle
  <2> HIDE DEF j
  <2>2. GoodAt("report", j, claim[r], skips[r], steps[r])
    BY <1>1, <1>3, <2>1, SilentGood
  <2> QED BY <1>4, <2>2 DEF Raise, Stop, j
<1>6. UNCHANGED ledgerVars => Grown
  BY <1>2, LedgerGrows
<1>7. CASE WriteFormation(r)
  <2>1. CASE FormationConflict(j0.latest)
    BY <1>5, <1>6, <1>7, <2>1 DEF WriteFormation
  <2>2. CASE ~FormationConflict(j0.latest)
    <3> DEFINE j == [job[r] EXCEPT !.evidence = Missing]
    <3>1. RecordFormation(j0.latest, j0.evidence) /\ Goto(r, "formations") /\ Set(r, j)
      BY <1>7, <2>2 DEF WriteFormation
    <3>2. j.latest = j0.latest /\ j.formed = j0.formed /\ j.due = j0.due
      BY <1>1 DEF JobType
    <3>3. Grown
      BY <1>1, <1>2, <3>1 DEF RecordFormation, Grown, Formed, Outcomes, LedgerType
    <3>4. pc[r] = "record"
      BY <1>7 DEF WriteFormation, At
    <3> HIDE DEF j
    <3>5. GoodAt("formations", j, claim[r], skips[r], steps[r])
      BY <1>1, <3>2, <3>4, SameGood DEF AfterRead, AfterFormations, AfterOutcomes
    <3> QED BY <1>4, <3>1, <3>3, <3>5
  <2> QED BY <2>1, <2>2
<1>8. CASE WriteMaturity(r)
  <2>1. PICK pair \in job[r].due :
          IF pair \in job[r].known
            THEN Goto(r, "target") /\ UNCHANGED <<job, ledgerVars>>
            ELSE IF MaturityConflict(pair)
                   THEN Raise(r) /\ UNCHANGED ledgerVars
                   ELSE RecordMaturity(pair) /\ Goto(r, "target") /\ UNCHANGED job
    BY <1>8 DEF WriteMaturity
  <2>2. pc[r] = "pairs"
    BY <1>8 DEF WriteMaturity, At
  <2>3. GoodAt("target", j0, claim[r], skips[r], steps[r])
    BY <1>1, <2>2, SameGood DEF AfterRead, AfterFormations, AfterOutcomes
  <2>4. UNCHANGED job => Set(r, j0)
    BY <1>1 DEF Set, ProcType
  <2>5. RecordMaturity(pair) => Grown
    BY <1>2 DEF RecordMaturity, Grown, Formed, Outcomes
  <2> QED BY <1>4, <1>5, <1>6, <2>1, <2>3, <2>4, <2>5
<1>9. CASE WriteOutcome(r)
  <2>1. PICK pair \in job[r].due :
          IF OutcomeConflict(pair)
            THEN Raise(r) /\ UNCHANGED ledgerVars
            ELSE /\ RecordOutcome(pair, job[r].evidence)
                 /\ Goto(r, "pairs")
                 /\ Set(r, [job[r] EXCEPT !.due = @ \ {pair}, !.evidence = Missing])
    BY <1>9 DEF WriteOutcome
  <2>2. CASE OutcomeConflict(pair)
    BY <1>5, <1>6, <2>1, <2>2
  <2>3. CASE ~OutcomeConflict(pair)
    <3>1. PICK j : j = [job[r] EXCEPT !.due = @ \ {pair}, !.evidence = Missing]
      OBVIOUS
    <3>2. RecordOutcome(pair, j0.evidence) /\ Goto(r, "pairs") /\ Set(r, j)
      BY <2>1, <2>3, <3>1
    <3>3. j.latest = j0.latest /\ j.formed = j0.formed /\ j.due = j0.due \ {pair}
      BY <1>1, <3>1 DEF JobType
    <3>4. pc[r] = "outcome"
      BY <1>9 DEF WriteOutcome, At
    <3>5. Outcomes' = Outcomes \cup {pair}
      <4>1. j0.evidence # Missing
        <5>1. j0.evidence \in Evidence
          BY <1>1, <3>4 DEF Holding, WithEvidence
        <5>2. DOMAIN j0.evidence = {"priced", "closes", "bound"} /\ DOMAIN Missing = {"priced"}
          BY <5>1 DEF Evidence, Missing
        <5> QED BY <5>2
      <4>2. pair \in Pair
        BY <1>1 DEF JobType
      <4> QED BY <1>1, <3>2, <4>1, <4>2 DEF RecordOutcome, Outcomes, LedgerType
    <3>6. Grown
      BY <1>2, <3>2, <3>5 DEF RecordOutcome, Grown, Formed
    <3>7. PICK c, skip, st : c = claim[r] /\ skip = skips[r] /\ st = steps[r]
      OBVIOUS
    <3>8. /\ st # Success /\ c.session <= rows[Benchmark].upto /\ c.formed \subseteq Formed
          /\ c.session <= j0.latest /\ c.formed \subseteq j0.formed /\ j0.formed \subseteq Formed
          /\ Due(j0.formed, j0.latest) \subseteq j0.due \cup Outcomes
      BY <1>1, <1>3, <3>4, <3>7 DEF Good, GoodAt, AfterRead, AfterFormations, AfterOutcomes
    <3>9. rows' = rows /\ Formed' = Formed
      BY <1>9, <3>2 DEF WriteOutcome, marketVars, RecordOutcome, Formed
    <3>10. GoodAt("pairs", j, c, skip, st)'
      BY <3>3, <3>5, <3>8, <3>9
         DEF GoodAt, AfterRead, AfterFormations, AfterOutcomes, AfterForward, Wins, Due
    <3>11. \E cc, sk, ss : /\ cc = claim[r] /\ sk = skips[r] /\ ss = steps[r]
                           /\ GoodAt("pairs", j, cc, sk, ss)'
      BY <3>7, <3>10
    <3> QED BY <1>1, <3>2, <3>6, <3>11, DoneMoves
  <2> QED BY <2>2, <2>3
<1>10. CASE WriteGaps(r)
  <2>1. pc[r] = "pairs" /\ j0.due = {} /\ RecordGaps(Unformed(j0.latest, j0.formed))
        /\ Goto(r, "lifecycle") /\ Set(r, Idle) /\ UNCHANGED marketVars
    BY <1>10 DEF WriteGaps, At
  <2>2. PICK c, skip, st : c = claim[r] /\ skip = skips[r] /\ st = steps[r]
    OBVIOUS
  <2>3. /\ st # Success /\ c.session <= rows[Benchmark].upto /\ c.formed \subseteq Formed
        /\ c.session <= j0.latest /\ c.formed \subseteq j0.formed /\ j0.formed \subseteq Formed
        /\ Due(j0.formed, j0.latest) \subseteq Outcomes
    BY <1>1, <1>3, <2>1, <2>2 DEF Good, GoodAt, AfterRead, AfterFormations, AfterOutcomes
  <2>4. /\ rows' = rows /\ Formed' = Formed /\ Outcomes' = Outcomes
        /\ Unformed(j0.latest, j0.formed) \subseteq gaps' /\ gaps \subseteq gaps'
    BY <2>1 DEF RecordGaps, marketVars, Formed, Outcomes
  <2>5. j0.latest \in 0..LastSession /\ j0.formed \in SUBSET Session /\ c \in Claim
    BY <1>1, <2>2 DEF JobType
  <2>6. Kept(c)'
    BY <2>3, <2>4, <2>5, KeptCovers
  <2>7. GoodAt("lifecycle", Idle, c, skip, st)'
    BY <2>3, <2>4, <2>6
       DEF GoodAt, AfterRead, AfterFormations, AfterOutcomes, AfterForward, Wins
  <2>8. Grown
    BY <1>2, <2>4 DEF Grown
  <2>9. \E cc, sk, ss : /\ cc = claim[r] /\ sk = skips[r] /\ ss = steps[r]
                        /\ GoodAt("lifecycle", Idle, cc, sk, ss)'
    BY <2>2, <2>7
  <2> QED BY <1>1, <2>1, <2>8, <2>9, DoneMoves
<1> QED BY <1>7, <1>8, <1>9, <1>10

\* The steps of the other stages, which leave the ledger alone.
LEMMA StageDone ==
  ASSUME TypeInv, TypeInv', DoneInv, NEW r \in Run, UNCHANGED <<skips, steps>>,
         \/ /\ \/ CheckProvenance(r) \/ CheckSession(r) \/ SkipStage(r)
               \/ EnterLifecycle(r) \/ Scan(r)
            /\ UNCHANGED acted
         \/ Trade(r)
  PROVE  DoneInv'
<1> DEFINE j0 == job[r]
<1>1. /\ MarketType /\ MarketType' /\ ProcType /\ Good(r) /\ DoneInv
      /\ claim \in [Run -> Claim] /\ RunRecords
  BY DEF TypeInv, DoneInv, RunRecords
<1>2. UNCHANGED marketVars /\ UNCHANGED ledgerVars
  BY DEF CheckProvenance, CheckSession, SkipStage, EnterLifecycle, Scan, Trade, Steady
<1>3. rows' = rows /\ rows[Benchmark].upto <= rows'[Benchmark].upto
  BY <1>1, <1>2, Histories, Bounds DEF marketVars
<1>4. steps[r] # Success
  BY <1>1 DEF Good, GoodAt, CheckProvenance, CheckSession, SkipStage, EnterLifecycle, Scan,
              Trade, At
<1>5. UNCHANGED acted => Grown
  BY <1>2, <1>3, LedgerGrows
<1>6. ASSUME NEW label, NEW j, Goto(r, label), Set(r, j), Grown, UNCHANGED claim,
             GoodAt(label, j, claim[r], skips[r], steps[r])
      PROVE  DoneInv'
  BY <1>1, <1>6, DoneMoves
<1>7. UNCHANGED job => Set(r, j0)
  BY <1>1 DEF Set, ProcType
<1>8. ASSUME NEW stage, stage # "scanner", NEW failed, Stop(r, stage, failed), Grown,
             UNCHANGED claim
      PROVE  DoneInv'
  <2> DEFINE j == [Idle EXCEPT !.stage = stage, !.failed = failed]
  <2>1. j.stage = stage
    BY DEF Idle
  <2>2. Goto(r, "report") /\ Set(r, j)
    BY <1>8 DEF Stop
  <2> HIDE DEF j
  <2>3. GoodAt("report", j, claim[r], skips[r], steps[r])
    BY <1>1, <1>4, <1>8, <2>1, SilentGood
  <2> QED BY <1>6, <1>8, <2>2, <2>3
<1>9. CASE CheckProvenance(r) /\ UNCHANGED acted
  <2>1. GoodAt("session", j0, claim[r], skips[r], steps[r])
    BY <1>1, <1>4, SilentGood DEF Silent
  <2> QED BY <1>5, <1>6, <1>7, <1>8, <1>9, <2>1 DEF CheckProvenance
<1>10. CASE CheckSession(r) /\ UNCHANGED acted
  <2>1. CASE ~(Complete /\ IsToday)
    BY <1>5, <1>8, <1>10, <2>1 DEF CheckSession
  <2>2. CASE Complete /\ IsToday
    <3>1. PICK c, skip, st, label, j :
            /\ c = [session |-> today, formed |-> Formed] /\ skip = skips[r] /\ st = steps[r]
            /\ label = (IF "update" \in skips[r] THEN "lifecycle" ELSE "gate") /\ j = j0
      OBVIOUS
    <3>2. Goto(r, label) /\ UNCHANGED job /\ claim' = [claim EXCEPT ![r] = c]
      BY <1>10, <2>2, <3>1 DEF CheckSession, Skips
    <3>3. c \in Claim
      <4>1. today \in 0..LastSession
        BY <1>1, Bounds DEF MarketType, Session
      <4> QED BY <3>1, <4>1 DEF Claim, Formed
    <3>4. c.session = rows[Benchmark].upto /\ c.formed = Formed
      BY <2>2, <3>1 DEF IsToday
    <3>5. c.session <= rows[Benchmark].upto
      BY <1>1, <3>4, Histories, Bounds
    <3>6. GoodAt(label, j, c, skip, st)
      BY <1>4, <3>1, <3>4, <3>5
         DEF GoodAt, AfterRead, AfterFormations, AfterOutcomes, AfterForward, Wins
    <3>7. GoodAt(label, j, c, skip, st)'
      BY <1>1, <1>5, <1>10, <3>3, <3>6, GoodKept
    <3>8. /\ pc'[r] = label /\ job'[r] = j /\ claim'[r] = c
          /\ skips'[r] = skip /\ steps'[r] = st
      BY <1>1, <3>1, <3>2 DEF Goto, ProcType
    <3>9. Good(r)'
      BY <3>7, <3>8 DEF Good
    <3>10. \A q \in Run : q # r => RestsWholly(q)
      BY <1>1, <3>2 DEF Goto, ProcType, RestsWholly, Rests
    <3>11. RunRecords'
      BY <1>1, <3>2, <3>3 DEF RunRecords
    <3> QED BY <1>1, <1>5, <1>10, <3>9, <3>10, <3>11, DoneKept
  <2> QED BY <2>1, <2>2
<1>11. CASE EnterLifecycle(r) /\ UNCHANGED acted
  <2>1. pc[r] = "lifecycle"
    BY <1>11 DEF EnterLifecycle, At
  <2>2. GoodAt("trade", j0, claim[r], skips[r], steps[r])
    BY <1>1, <2>1 DEF Good, GoodAt, AfterRead, AfterFormations, AfterOutcomes, AfterForward, Wins
  <2> QED BY <1>5, <1>6, <1>7, <1>8, <1>11, <2>2 DEF EnterLifecycle
<1>12. CASE Scan(r) /\ UNCHANGED acted
  <2>1. pc[r] = "scanner"
    BY <1>12 DEF Scan, At
  <2>2. ASSUME NEW j PROVE GoodAt("report", j, claim[r], skips[r], steps[r])
    BY <1>1, <2>1 DEF Good, GoodAt, AfterRead, AfterFormations, AfterOutcomes, AfterForward
  <2>3. Goto(r, "report") /\ \E j : Set(r, j) /\ UNCHANGED claim
    BY <1>12 DEF Scan, Stop
  <2> QED BY <1>5, <1>6, <1>12, <2>2, <2>3
<1>13. CASE Trade(r)
  <2>1. pc[r] = "trade" /\ Goto(r, "scanner") /\ UNCHANGED <<job, claim>>
        /\ acted' = acted \cup {rows[Benchmark].upto}
    BY <1>13 DEF Trade, At
  <2>2. Grown
    BY <1>2, <1>3, <2>1 DEF Grown, ledgerVars, Formed, Outcomes
  <2>3. PICK c, skip, st, j : c = claim[r] /\ skip = skips[r] /\ st = steps[r] /\ j = j0
    OBVIOUS
  <2>4. GoodAt("trade", j, c, skip, st)
    BY <1>1, <2>1, <2>3 DEF Good
  <2>5. GoodAt("trade", j, c, skip, st)'
    BY <1>1, <2>2, <2>3, <2>4, GoodKept
  <2>6. Traded(c)'
    <3>1. rows[Benchmark].upto \in Nat /\ c.session \in Nat
      BY <1>1, <2>3, Histories, Bounds DEF Claim
    <3>2. rows[Benchmark].upto >= c.session
      BY <2>4, <3>1 DEF GoodAt
    <3> QED BY <2>1, <3>2 DEF Traded
  <2>7. GoodAt("scanner", j, c, skip, st)'
    BY <2>5, <2>6 DEF GoodAt, AfterRead, AfterFormations, AfterOutcomes, AfterForward, Wins
  <2>8. \E cc, sk, ss : /\ cc = claim[r] /\ sk = skips[r] /\ ss = steps[r]
                        /\ GoodAt("scanner", j, cc, sk, ss)'
    BY <2>3, <2>7
  <2>9. Set(r, j)
    BY <1>7, <2>1, <2>3
  <2> QED BY <1>1, <2>1, <2>2, <2>8, <2>9, DoneMoves
<1>14. CASE SkipStage(r) /\ UNCHANGED acted
  <2>1. CASE pc[r] = "lifecycle"
    <3>1. "lifecycle" \in skips[r] /\ Goto(r, "scanner") /\ UNCHANGED <<job, claim>>
      BY <1>14, <2>1 DEF SkipStage, Skips, At
    <3>2. GoodAt("scanner", j0, claim[r], skips[r], steps[r])
      BY <1>1, <2>1, <3>1
         DEF Good, GoodAt, AfterRead, AfterFormations, AfterOutcomes, AfterForward, Wins
    <3> QED BY <1>5, <1>6, <1>7, <1>14, <3>1, <3>2
  <2>2. CASE pc[r] # "lifecycle"
    <3>1. pc[r] = "scanner" /\ UNCHANGED claim /\ Goto(r, "report") /\ \E j : Set(r, j)
      BY <1>14, <2>2 DEF SkipStage, Stop, At
    <3>2. ASSUME NEW j PROVE GoodAt("report", j, claim[r], skips[r], steps[r])
      BY <1>1, <3>1 DEF Good, GoodAt, AfterRead, AfterFormations, AfterOutcomes, AfterForward
    <3> QED BY <1>5, <1>6, <1>14, <3>1, <3>2
  <2> QED BY <2>1, <2>2
<1> QED BY <1>9, <1>10, <1>11, <1>12, <1>13, <1>14

LEMMA DoneInit == Init => DoneInv
<1> SUFFICES ASSUME Init PROVE DoneInv
  OBVIOUS
<1>1. RunRecords
  <2>1. NoClaim \in Claim
    BY Bounds DEF NoClaim, Claim
  <2> QED BY <2>1 DEF Init, HistoryInit, RunRecords
<1>2. ASSUME NEW r \in Run PROVE Good(r)
  <2>1. /\ claim[r].session = 0 /\ claim[r].formed = {} /\ pc[r] = "start"
        /\ steps[r] = NoSteps
    BY <1>2 DEF Init, HistoryInit, NoClaim
  <2>2. rows[Benchmark].upto \in Nat
    BY Bounds, TypeInit, Histories DEF TypeInv
  <2>3. steps[r] # Success
    BY <2>1 DEF NoSteps, Success
  <2> QED BY <2>1, <2>2, <2>3
          DEF Good, GoodAt, AfterRead, AfterFormations, AfterOutcomes, AfterForward, Wins
<1> QED BY <1>1, <1>2 DEF DoneInv

\* The end of a run and the faults: the stages recorded are those it has done.
LEMMA EndDone ==
  ASSUME TypeInv, TypeInv', DoneInv, NEW r \in Run, Report(r) \/ Return(r) \/ Fault(r)
  PROVE  DoneInv'
<1> DEFINE j0 == job[r]
<1>1. /\ MarketType /\ MarketType' /\ ProcType /\ Good(r) /\ RunRecords
  BY DEF TypeInv, DoneInv
<1>2. ASSUME MarketMoves, UNCHANGED <<ledgerVars, acted>> PROVE Grown
  BY <1>1, <1>2, RowsGrow, LedgerGrows
<1>3. UNCHANGED marketVars => MarketMoves
  BY DEF marketVars, MarketMoves
<1>4. ASSUME NEW label, NEW j, Goto(r, label), Set(r, j), Grown, UNCHANGED <<claim, skips, steps>>,
             GoodAt(label, j, claim[r], skips[r], steps[r])
      PROVE  DoneInv'
  BY <1>1, <1>4, DoneMoves
<1>5. ASSUME Goto(r, "left"), Set(r, Idle), Grown, UNCHANGED <<claim, skips, steps>>
      PROVE  DoneInv'
  <2>1. GoodAt("left", Idle, claim[r], skips[r], steps[r])
    BY <1>1 DEF Good, GoodAt, AfterRead, AfterFormations, AfterOutcomes, AfterForward, Wins
  <2> QED BY <1>4, <1>5, <2>1
<1>6. CASE Report(r)
  <2>1. PICK c, skip, st, j :
          /\ c = claim[r] /\ skip = skips[r] /\ j = j0
          /\ st = [last |-> j0.stage, ok |-> ~j0.failed]
    OBVIOUS
  <2>2. /\ pc[r] = "report" /\ Goto(r, "exit") /\ UNCHANGED <<job, claim, skips, acted>>
        /\ steps' = [steps EXCEPT ![r] = st]
    BY <1>6, <2>1 DEF Report, RecordSteps, At, operationVars
  <2>3. Grown
    BY <1>2, <1>3, <1>6, <2>2 DEF Report, Steady
  <2>4. GoodAt("report", j, c, skip, steps[r])
    BY <1>1, <2>1, <2>2 DEF Good
  <2>5. st = Success => Wins("report", j)
    BY <2>1 DEF Success, Wins
  <2>6. GoodAt("exit", j, c, skip, st)
    BY <2>4, <2>5 DEF GoodAt, AfterRead, AfterFormations, AfterOutcomes, AfterForward, Wins
  <2>7. c \in Claim
    BY <1>1, <2>1 DEF RunRecords
  <2>8. GoodAt("exit", j, c, skip, st)'
    BY <1>1, <2>3, <2>6, <2>7, GoodKept
  <2>9. pc'[r] = "exit" /\ job'[r] = j /\ claim'[r] = c /\ skips'[r] = skip /\ steps'[r] = st
    BY <1>1, <2>1, <2>2 DEF Goto, ProcType, RunRecords
  <2>10. Good(r)'
    BY <2>8, <2>9 DEF Good
  <2>11. \A q \in Run : q # r => RestsWholly(q)
    BY <1>1, <2>2 DEF Goto, ProcType, RestsWholly, Rests, RunRecords
  <2>12. RunRecords'
    BY <1>1, <2>2 DEF RunRecords
  <2> QED BY <1>1, <2>3, <2>10, <2>11, <2>12, DoneKept
<1>7. CASE Return(r)
  <2>1. Goto(r, "left") /\ Set(r, Idle) /\ UNCHANGED <<claim, skips, steps, acted>>
        /\ UNCHANGED <<marketVars, ledgerVars>>
    BY <1>7 DEF Return, Leave, operationVars, Steady
  <2> QED BY <1>2, <1>3, <1>5, <2>1
<1>8. CASE Fault(r)
  <2>1. UNCHANGED <<claim, skips, acted>>
    BY <1>8 DEF Fault
  <2>2. CASE FetchFails(r) /\ UNCHANGED historyVars
    <3>1. /\ MarketMoves /\ UNCHANGED ledgerVars /\ UNCHANGED pc /\ pc[r] = "update"
      BY <2>2, UpdateMoves
    <3>2. \E j : Set(r, j)
      BY <2>2 DEF FetchFails, Done
    <3>3. Goto(r, "update")
      BY <1>1, <3>1 DEF Goto, ProcType
    <3>4. UNCHANGED steps
      BY <2>2 DEF historyVars
    <3>5. \A j : GoodAt("update", j, claim[r], skips[r], steps[r])
      BY <1>1, <3>1, SilentGood DEF Silent, Good, GoodAt
    <3> QED BY <1>2, <1>4, <2>1, <3>1, <3>2, <3>3, <3>4, <3>5
  <2>3. CASE StageFails(r) /\ UNCHANGED historyVars
    <3>1. PICK stage : Stop(r, stage, TRUE) /\ pc[r] \in AfterForward
      BY <2>3 DEF StageFails, At, AfterForward
    <3>2. UNCHANGED steps /\ Grown
      BY <1>2, <1>3, <2>1, <2>3 DEF historyVars, StageFails, Steady
    <3>3. PICK j : j = [Idle EXCEPT !.stage = stage, !.failed = TRUE]
      OBVIOUS
    <3>4. j.failed = TRUE /\ Goto(r, "report") /\ Set(r, j)
      BY <3>1, <3>3 DEF Idle, Stop
    <3>5. GoodAt("report", j, claim[r], skips[r], steps[r])
      BY <1>1, <3>1, <3>4
         DEF Good, GoodAt, AfterRead, AfterFormations, AfterOutcomes, AfterForward, Wins
    <3> QED BY <1>4, <2>1, <3>2, <3>4, <3>5
  <2>4. CASE (\E how : Leave(r, how)) /\ Goto(r, "left") /\ Set(r, Idle) /\ Steady
    <3>1. UNCHANGED steps
      BY <2>4 DEF Leave
    <3>2. Grown
      BY <1>2, <1>3, <2>1, <2>4 DEF Steady
    <3> QED BY <1>5, <2>1, <2>4, <3>1, <3>2
  <2>5. CASE LoseRecorder(r) /\ UNCHANGED procVars /\ Steady
    <3>1. Grown
      BY <1>2, <1>3, <2>1, <2>5 DEF Steady
    <3>2. UNCHANGED <<pc, job, claim, skips, steps>>
      BY <2>1, <2>5 DEF LoseRecorder, procVars
    <3>3. RunRecords' /\ \A q \in Run : RestsWholly(q)
      BY <1>1, <3>2 DEF RunRecords, RestsWholly, Rests
    <3> QED BY <1>1, <3>1, <3>3, DoneKept
  <2> QED BY <1>8, <2>2, <2>3, <2>4, <2>5 DEF Fault
<1> QED BY <1>6, <1>7, <1>8

LEMMA DoneStep == TypeInv /\ TypeInv' /\ DoneInv /\ [Next]_vars => DoneInv'
<1> SUFFICES ASSUME TypeInv, TypeInv', DoneInv, [Next]_vars PROVE DoneInv'
  OBVIOUS
<1>1. /\ MarketMoves /\ MarketType /\ MarketType' /\ ProcType /\ RunRecords
      /\ \A r \in Run : Good(r)
  BY StepMoves DEF TypeInv, DoneInv
<1>2. ASSUME UNCHANGED <<ledgerVars, acted>> PROVE Grown
  BY <1>1, <1>2, RowsGrow, LedgerGrows
<1>3. ASSUME UNCHANGED <<ledgerVars, procVars, acted, claim, skips, steps>> PROVE DoneInv'
  <2>1. RunRecords' /\ \A q \in Run : RestsWholly(q)
    BY <1>1, <1>3 DEF RunRecords, procVars, RestsWholly, Rests
  <2> QED BY <1>1, <1>2, <1>3, <2>1, DoneKept
<1>4. ASSUME NEW r \in Run, NEW how, Launch(r, how) PROVE DoneInv'
  <2>1. PICK skip \in SkipOptions :
          /\ skips' = [skips EXCEPT ![r] = skip] /\ Goto(r, "update")
          /\ \E j : Set(r, j)
    BY <1>4 DEF Launch
  <2>2. pc[r] = "start" /\ UNCHANGED <<ledgerVars, acted, claim, steps>>
    BY <1>4 DEF Launch, At, BeginRun, Steady
  <2>3. PICK j, c, st : Set(r, j) /\ c = claim[r] /\ st = steps[r]
    BY <2>1
  <2>4. GoodAt("update", j, c, skip, st)
    BY <1>1, <2>2, <2>3
       DEF Good, GoodAt, AfterRead, AfterFormations, AfterOutcomes, AfterForward, Wins
  <2>5. c \in Claim
    BY <1>1, <2>3 DEF RunRecords
  <2>6. GoodAt("update", j, c, skip, st)'
    BY <1>1, <1>2, <2>2, <2>4, <2>5, GoodKept
  <2>7. pc'[r] = "update" /\ job'[r] = j /\ claim'[r] = c /\ skips'[r] = skip /\ steps'[r] = st
    BY <1>1, <2>1, <2>2, <2>3 DEF Goto, Set, ProcType, RunRecords
  <2>8. Good(r)'
    BY <2>6, <2>7 DEF Good
  <2>9. RunRecords' /\ \A q \in Run : q # r => RestsWholly(q)
    BY <1>1, <2>1, <2>2, <2>3 DEF Goto, Set, ProcType, RunRecords, RestsWholly, Rests
  <2> QED BY <1>1, <1>2, <2>2, <2>8, <2>9, DoneKept
<1>5. ASSUME NEW r \in Run, UpdateStage(r), UNCHANGED <<acted, claim, steps, skips>>
      PROVE  DoneInv'
  <2>1. UNCHANGED ledgerVars /\ UNCHANGED pc /\ pc[r] = "update"
    BY <1>5, UpdateMoves
  <2>2. \/ \E j : Set(r, j)
        \/ UNCHANGED job
    BY <1>5 DEF UpdateStage, Fetch, Reconcile, Decide, Finish, Done
  <2>3. Goto(r, "update")
    BY <1>1, <2>1 DEF Goto, ProcType
  <2>4. \E j : Set(r, j)
    BY <1>1, <2>2 DEF Set, ProcType
  <2>5. \A j : GoodAt("update", j, claim[r], skips[r], steps[r])
    BY <1>1, <2>1, SilentGood DEF Silent, Good, GoodAt
  <2> QED BY <1>1, <1>2, <1>5, <2>1, <2>3, <2>4, <2>5, DoneMoves
<1>6. ASSUME NEW r \in Run, RunStep(r) PROVE DoneInv'
  <2>1. CASE StageStep(r) /\ UNCHANGED <<historyVars, skips, faults>>
    <3>1. UNCHANGED <<skips, steps>>
      BY <2>1 DEF historyVars
    <3>2. CASE UpdateStage(r) /\ UNCHANGED <<acted, claim>>
      BY <1>5, <3>1, <3>2
    <3>3. CASE ForwardStage(r) /\ UNCHANGED <<acted, claim>>
      BY <1>1, <3>1, <3>3, ForwardReadsDone, ForwardWritesDone DEF ForwardStage
    <3>4. CASE \/ /\ \/ CheckProvenance(r) \/ CheckSession(r) \/ SkipStage(r)
                     \/ EnterLifecycle(r) \/ Scan(r)
                  /\ UNCHANGED acted
               \/ Trade(r)
      BY <3>1, <3>4, StageDone
    <3> QED BY <2>1, <3>2, <3>3, <3>4 DEF StageStep
  <2> QED BY <1>6, <2>1, EndDone DEF RunStep
<1>7. ASSUME NEW r \in Run, Record(r) PROVE DoneInv'
  BY <1>3, <1>7 DEF Record, FinishRun, operationVars, Steady
<1>8. ASSUME NEW r \in Run, Fault(r) PROVE DoneInv'
  BY <1>8, EndDone
<1>9. CASE Operator \/ Environment
  BY <1>3, <1>9 DEF Operator, Environment, historyVars, operationVars
<1>10. CASE UNCHANGED vars
  BY <1>3, <1>10 DEF vars, historyVars, operationVars
<1> QED BY <1>4, <1>6, <1>7, <1>8, <1>9, <1>10 DEF Next

\* A run that is recorded as a success with all its stages has traded, and has
\* formed or audited every session and settled every outcome it had to, but for
\* what it was told to skip.
THEOREM SuccessIsReal == Spec => []ReportedSuccessMeansDone
<1>1. TypeInv /\ DoneInv => ReportedSuccessMeansDone
  <2> SUFFICES ASSUME DoneInv, NEW r \in Run, steps[r] = [last |-> "scanner", ok |-> TRUE]
               PROVE  LET s == claim[r].session IN
                      /\ ~Skips(r, "lifecycle") => \E t \in acted : t >= s
                      /\ ~Skips(r, "update") =>
                           /\ \A m \in Start + 1 .. s : m \in Formed \cup gaps
                           /\ Due(claim[r].formed, s) \subseteq Outcomes
    BY DEF ReportedSuccessMeansDone
  <2>1. Good(r) /\ steps[r] = Success
    BY DEF DoneInv, Success
  <2> QED BY <2>1 DEF Good, GoodAt, Kept, Traded, Skips
<1>2. TypeInv /\ DoneInv /\ [Next]_vars => (TypeInv /\ DoneInv)'
  BY TypeStep, DoneStep
<1> QED BY <1>1, <1>2, TypeInit, DoneInit, PTL DEF Spec
=============================================================================
