---------------------------- MODULE ForwardDaily -----------------------------
(***************************************************************************)
(* run_forward_validation_daily, one action per read of the market, read   *)
(* of the ledger and transaction.  A step of run r moves it from one       *)
(* program counter of the stage to the next, to "lifecycle" when the stage *)
(* is done, or to the report of the failed stage: Raise(r).                *)
(***************************************************************************)
EXTENDS ForwardLedger

CONSTANT Run   \* runs of the daily operation

VARIABLES
  pc,    \* program counter of a run's process
  job    \* local state of a run's process

procVars == <<pc, job>>

\* The stage a run is in, whether it failed, what its update has left to do
\* and the batch it holds, and what the forward stage has read.
Idle == [ stage |-> "none", failed |-> FALSE, todo |-> {}, batch |-> NoBatch,
          pin |-> <<>>, latest |-> 0, formed |-> {}, known |-> {}, due |-> {},
          evidence |-> Missing ]

Goto(r, label) == pc' = [pc EXCEPT ![r] = label]
Set(r, j) == job' = [job EXCEPT ![r] = j]

\* A stage that ends the pipeline; the run's next step records the stages.
Stop(r, stage, failed) ==
  /\ Goto(r, "report")
  /\ Set(r, [Idle EXCEPT !.stage = stage, !.failed = failed])
Raise(r) == Stop(r, "forward", TRUE)

At(r, label) == pc[r] = label
ReadsOnly == UNCHANGED <<marketVars, ledgerVars>>

\* require_market_provenance over every symbol.
MarketProvenance(securities) ==
  \A sec \in securities : blocks[sec] = {} /\ ~Open(sec)

ForwardGate(r) ==
  /\ At(r, "gate")
  /\ IF MarketProvenance(Security) THEN Goto(r, "pin") /\ UNCHANGED job ELSE Raise(r)
  /\ ReadsOnly

Pin(r) ==
  /\ At(r, "pin")
  /\ Goto(r, "sessions")
  /\ Set(r, [job[r] EXCEPT !.pin = DatasetVersion])
  /\ ReadsOnly

\* The completed sessions are those of the benchmark.
ReadSessions(r) ==
  /\ At(r, "sessions")
  /\ LET latest == rows[Benchmark].upto
     IN IF latest < Start
          THEN Raise(r)
          ELSE Goto(r, "formed") /\ Set(r, [job[r] EXCEPT !.latest = latest])
  /\ ReadsOnly

\* Only the latest completed session may be formed.
CheckFormation(r) ==
  /\ At(r, "formed")
  /\ IF job[r].latest <= Start \/ job[r].latest \in Formed
       THEN Goto(r, "formations")
       ELSE Goto(r, "closes")
  /\ UNCHANGED job
  /\ ReadsOnly

\* Closes of a session, from the rows as they are now.
Read(session) ==
  [priced |-> {sec \in Security : rows[sec].upto >= session},
   closes |-> [sec \in Security |-> rows[sec].scale],
   bound  |-> [sec \in Security |-> 0]]
ReadEvidence(r, session) ==
  Set(r, [job[r] EXCEPT !.evidence = Read(session)])

\* A security without a row of the session is not eligible for selection.
ReadFormation(r) ==
  /\ At(r, "closes")
  /\ IF Read(job[r].latest).priced \cap Stock # {}
       THEN Goto(r, "bind") /\ ReadEvidence(r, job[r].latest)
       ELSE Raise(r)
  /\ ReadsOnly

\* MarketBindingSession.bind: the pinned version is still the current one and
\* no open intent claims a consumed session.
MayBind(r, session) ==
  /\ job[r].pin = DatasetVersion
  /\ \A sec \in job[r].evidence.priced : ~Claims(sec, session)

Bind(r, session, label) ==
  /\ IF MayBind(r, session)
       THEN /\ Goto(r, label)
            /\ Set(r, [job[r] EXCEPT !.evidence.bound =
                         [sec \in Security |-> logged[sec].rebase]])
       ELSE Raise(r)
  /\ ReadsOnly

BindFormation(r) == At(r, "bind") /\ Bind(r, job[r].latest, "record")

WriteFormation(r) ==
  /\ At(r, "record")
  /\ IF FormationConflict(job[r].latest)
       THEN Raise(r) /\ UNCHANGED ledgerVars
       ELSE /\ RecordFormation(job[r].latest, job[r].evidence)
            /\ Goto(r, "formations")
            /\ Set(r, [job[r] EXCEPT !.evidence = Missing])
  /\ UNCHANGED marketVars

-----------------------------------------------------------------------------
(* Maturities and outcomes of every formation the run now reads. *)

ReadFormations(r) ==
  /\ At(r, "formations")
  /\ Goto(r, "outcomes")
  /\ Set(r, [job[r] EXCEPT !.formed = Formed])
  /\ ReadsOnly

\* Mutant: a pair that has its maturity is taken as done.
ReadUnmatured(r) ==
  /\ At(r, "outcomes")
  /\ Goto(r, "maturities")
  /\ Set(r, [job[r] EXCEPT !.due = Due(job[r].formed, job[r].latest) \ matured])
  /\ ReadsOnly

\* Due pairs whose outcome is not there, whether or not they have matured.
ReadOutcomes(r) ==
  /\ At(r, "outcomes")
  /\ Goto(r, "maturities")
  /\ Set(r, [job[r] EXCEPT !.due = Due(job[r].formed, job[r].latest) \ Outcomes])
  /\ ReadsOnly

ReadMaturities(r) ==
  /\ At(r, "maturities")
  /\ Goto(r, "pairs")
  /\ Set(r, [job[r] EXCEPT !.known = matured])
  /\ ReadsOnly

\* Formations by session, horizons in the protocol's order.
Earlier(p, q) == p[1] < q[1] \/ (p[1] = q[1] /\ p[2] <= q[2])
IsNext(pair, due) == \A q \in due : Earlier(pair, q)

\* The maturity of the next due pair, unless the run already read it.
WriteMaturity(r) ==
  /\ At(r, "pairs")
  /\ \E pair \in job[r].due :
       /\ IsNext(pair, job[r].due)
       /\ IF pair \in job[r].known
            THEN Goto(r, "target") /\ UNCHANGED <<job, ledgerVars>>
            ELSE IF MaturityConflict(pair)
                   THEN Raise(r) /\ UNCHANGED ledgerVars
                   ELSE RecordMaturity(pair) /\ Goto(r, "target") /\ UNCHANGED job
  /\ UNCHANGED marketVars

ReadTarget(r) ==
  /\ At(r, "target")
  /\ Goto(r, "bindOutcome")
  /\ \E pair \in job[r].due : IsNext(pair, job[r].due) /\ ReadEvidence(r, Target(pair))
  /\ ReadsOnly

BindOutcome(r) ==
  /\ At(r, "bindOutcome")
  /\ \E pair \in job[r].due :
       IsNext(pair, job[r].due) /\ Bind(r, Target(pair), "qualify")

\* A target that is already disputed makes no outcome.
QualifyOutcome(r) ==
  /\ At(r, "qualify")
  /\ \E pair \in job[r].due :
       /\ IsNext(pair, job[r].due)
       /\ IF \A sec \in job[r].evidence.priced :
               Current(job[r].evidence.bound, sec) /\ ~BlockHits(sec, pair[1], Target(pair))
            THEN Goto(r, "outcome") /\ UNCHANGED job
            ELSE Raise(r)
  /\ ReadsOnly

WriteOutcome(r) ==
  /\ At(r, "outcome")
  /\ \E pair \in job[r].due :
       /\ IsNext(pair, job[r].due)
       /\ IF OutcomeConflict(pair)
            THEN Raise(r) /\ UNCHANGED ledgerVars
            ELSE /\ RecordOutcome(pair, job[r].evidence)
                 /\ Goto(r, "pairs")
                 /\ Set(r, [job[r] EXCEPT !.due = @ \ {pair}, !.evidence = Missing])
  /\ UNCHANGED marketVars

\* The gaps are those of the formations the run read, not of the ledger now.
WriteGaps(r) ==
  /\ At(r, "pairs") /\ job[r].due = {}
  /\ RecordGaps(Unformed(job[r].latest, job[r].formed))
  /\ Goto(r, "lifecycle")
  /\ Set(r, Idle)
  /\ UNCHANGED marketVars

ForwardStage(r) ==
  \/ ForwardGate(r)    \/ Pin(r)            \/ ReadSessions(r)
  \/ CheckFormation(r) \/ ReadFormation(r)  \/ BindFormation(r)
  \/ WriteFormation(r) \/ ReadFormations(r) \/ ReadOutcomes(r)
  \/ ReadMaturities(r) \/ WriteMaturity(r)  \/ ReadTarget(r)
  \/ BindOutcome(r)    \/ QualifyOutcome(r) \/ WriteOutcome(r)
  \/ WriteGaps(r)
=============================================================================
