---------------------------- MODULE MarketProofs ----------------------------
(***************************************************************************)
(* Type correctness of the market protocol, for any number of processes,   *)
(* batches and sessions, whatever fails and whoever else edits market.db.  *)
(* Then: MarketInv is inductive, and with it the safety properties of the  *)
(* protocol, when no write fails and nothing else writes market.db. Last,  *)
(* with failing writes: nothing is claimed on a market that is not the     *)
(* latest version, at most one intent is open, whoever else edits          *)
(* market.db; and the refinement of VersionedHistory, when nobody does.    *)
(***************************************************************************)
EXTENDS MarketInvariant, OverlapLemmas

-----------------------------------------------------------------------------
(* The overlap rules *)

\* A batch is a candidate batch with rows of the calendar.
LEMMA BatchType ==
    ASSUME NEW b \in Batch
    PROVE  b \in CandidateBatch /\ b.rows \in History
BY BatchAssumption DEF CandidateBatch

\* Writing rows of a batch gives a history.
LEMMA WriteType ==
    ASSUME NEW h \in History, NEW b \in Batch, NEW S
    PROVE  Write(h, b, S) \in History
BY BatchType DEF Write, History

\* A refused batch has one of the blocking verdicts.
LEMMA BlockedResults ==
    ASSUME NEW h, NEW b, ~Admitted(h, b)
    PROVE  Classify(h, b) \in BlockResult
BY DEF Admitted, AdmittedResult, Classify, BlockResult

\* The empty values are of their types.
LEMMA EmptyTypes ==
    /\ EmptyHistory \in History
    /\ NoClaim \in Claim
    /\ NoEvent \in Event
    /\ IdleJob \in Job
BY DEF EmptyHistory, History, NoClaim, Claim, NoEvent, Event, EventKind,
       IdleJob, Job, Phase, Reconciled, Finalization

-----------------------------------------------------------------------------
(* The transactions of the log *)

\* Logging an event of the right shape keeps the event table typed.
LEMMA SetEventType ==
    ASSUME lastEvent \in [Id -> Event], NEW i \in Id, NEW kind \in EventKind,
           NEW t \in Nat, NEW c \in Claim, SetEvent(i, kind, t, c)
    PROVE  lastEvent' \in [Id -> Event]
BY DEF SetEvent, Event

\* Each transaction of the log keeps the types of the log: persist_observation,
LEMMA PersistObservationType ==
    ASSUME LogTypeOK, NEW i \in Id, PersistObservation(i)
    PROVE  LogTypeOK'
BY SetEventType, EmptyTypes
   DEF LogTypeOK, PersistObservation, UnchangedApplication, EventKind

\* the ADMISSION_DECISION event,
LEMMA RecordDecisionType ==
    ASSUME LogTypeOK, NEW i \in Id, RecordDecision(i)
    PROVE  LogTypeOK'
BY SetEventType, EmptyTypes
   DEF LogTypeOK, RecordDecision, UnchangedApplication, EventKind

\* a block,
LEMMA RecordBlockType ==
    ASSUME LogTypeOK, NEW i \in Id, NEW r \in BlockResult,
           NEW S \in SUBSET Session, NEW w \in History,
           RecordBlock(i, r, S, w)
    PROVE  LogTypeOK'
<1>1. lastEvent' \in [Id -> Event]
  BY SetEventType, EmptyTypes DEF LogTypeOK, RecordBlock, EventKind
<1>2. [ticket |-> ticket, id |-> i, result |-> r, affected |-> S, window |-> w]
        \in Block
  BY DEF Block, LogTypeOK
<1>3. block' \subseteq Block /\ ticket' \in Nat \ {0}
  BY <1>2 DEF LogTypeOK, RecordBlock
<1>. QED
  BY <1>1, <1>3 DEF LogTypeOK, RecordBlock, UnchangedApplication

\* an application intent,
LEMMA RecordIntentType ==
    ASSUME LogTypeOK, NEW i \in Id, NEW S \in SUBSET Session, RecordIntent(i, S)
    PROVE  LogTypeOK'
<1>1. [NoClaim EXCEPT !.sessions = S] \in Claim
  BY EmptyTypes DEF Claim
<1>2. lastEvent' \in [Id -> Event]
  BY <1>1, SetEventType DEF LogTypeOK, RecordIntent, EventKind
<1>. QED
  BY <1>2 DEF LogTypeOK, RecordIntent, UnchangedApplication

\* its abandonment,
LEMMA AbandonIntentType ==
    ASSUME LogTypeOK, NEW i \in Id, AbandonIntent(i)
    PROVE  LogTypeOK'
BY SetEventType, EmptyTypes
   DEF LogTypeOK, AbandonIntent, UnchangedApplication, EventKind

\* the superseding of older observations,
LEMMA SupersedeOthersType ==
    ASSUME LogTypeOK, NEW i \in Id, SupersedeOthers(i)
    PROVE  LogTypeOK'
<1>1. [NoEvent EXCEPT !.kind = "SUPERSEDED"] \in Event
  BY EmptyTypes DEF Event, EventKind
<1>2. lastEvent' \in [Id -> Event]
  BY <1>1 DEF LogTypeOK, SupersedeOthers
<1>. QED
  BY <1>2 DEF LogTypeOK, SupersedeOthers, UnchangedApplication

\* record_application,
LEMMA RecordApplicationType ==
    ASSUME LogTypeOK, NEW i \in Id, NEW f \in Finalization,
           RecordApplication(i, f)
    PROVE  LogTypeOK'
<1>1. CASE ~Finalizes(i, f)
  BY <1>1 DEF RecordApplication, logVars, LogTypeOK
<1>2. CASE Finalizes(i, f)
  <2>1. lastEvent' \in [Id -> Event]
    BY <1>2, SetEventType, EmptyTypes DEF RecordApplication, LogTypeOK, EventKind
  <2>2. version' \in Nat /\ content' \in History
    BY <1>2 DEF RecordApplication, LogTypeOK, Finalization
  <2>3. owner' \in [Session -> Id \cup {NoOwner}]
    BY <1>2 DEF RecordApplication, LogTypeOK
  <2>4. \A k \in Covered(f) : [block |-> k.ticket, kind |-> "ACCEPTED"] \in Resolution
    BY DEF Covered, Unresolved, LogTypeOK, Block, Resolution, ResolutionKind
  <2>5. resolution' \subseteq Resolution
    BY <1>2, <2>4 DEF RecordApplication, LogTypeOK
  <2>. QED
    BY <1>2, <2>1, <2>2, <2>3, <2>5 DEF RecordApplication, LogTypeOK
<1>. QED
  BY <1>1, <1>2

\* record_rebase_intent,
LEMMA RecordRebaseIntentType ==
    ASSUME LogTypeOK, NEW i \in Id, NEW c \in Claim, RecordRebaseIntent(i, c)
    PROVE  LogTypeOK'
BY SetEventType
   DEF LogTypeOK, RecordRebaseIntent, UnchangedApplication, EventKind

\* record_rebase,
LEMMA RecordRebaseType ==
    ASSUME LogTypeOK, NEW i \in Id, NEW c \in Claim, NEW t, RecordRebase(i, c, t)
    PROVE  LogTypeOK'
<1>1. CASE ~Rebases(i, c, t)
  BY <1>1 DEF RecordRebase, logVars, LogTypeOK
<1>2. CASE Rebases(i, c, t)
  <2>1. lastEvent' \in [Id -> Event]
    BY <1>2, SetEventType, EmptyTypes DEF RecordRebase, LogTypeOK, EventKind
  <2>0. /\ version' = version + 1 /\ content' = c.post
        /\ rebasedBlock' = rebasedBlock \cup {c.block}
    BY <1>2, Zenon DEF RecordRebase
  <2>2. /\ version' \in Nat /\ content' \in History
        /\ rebasedBlock' \subseteq Nat
    <3>1. c.post \in History /\ c.block \in Nat
      BY DEF Claim
    <3>2. version' \in Nat
      BY <2>0 DEF LogTypeOK
    <3>3. content' \in History
      BY <2>0, <3>1
    <3>4. rebasedBlock' \subseteq Nat
      BY <2>0, <3>1 DEF LogTypeOK
    <3>. QED
      BY <3>2, <3>3, <3>4
  <2>5. rebaseOwner' \in [Session -> Id \cup {NoOwner}]
    BY <1>2 DEF RecordRebase, LogTypeOK
  <2>3. /\ [block |-> c.block, kind |-> "REBASED"] \in Resolution
        /\ \A o \in c.older :
             [block |-> o, kind |-> "SUPERSEDED_BY_REBASE"] \in Resolution
    BY DEF Claim, Resolution, ResolutionKind
  <2>4. resolution' \subseteq Resolution
    BY <1>2, <2>3 DEF RecordRebase, LogTypeOK
  <2>. QED
    BY <1>2, <2>1, <2>2, <2>4, <2>5 DEF RecordRebase, LogTypeOK
<1>. QED
  BY <1>1, <1>2

\* and resolve_block.
LEMMA ResolveBlockType ==
    ASSUME LogTypeOK, NEW k \in block, ResolveBlock(k)
    PROVE  LogTypeOK'
<1>1. [block |-> k.ticket, kind |-> "REVIEWED"] \in Resolution
  BY DEF LogTypeOK, Block, Resolution, ResolutionKind
<1>. QED
  BY <1>1 DEF LogTypeOK, ResolveBlock, UnchangedApplication

-----------------------------------------------------------------------------
(* Process control *)

JobsOK == job \in [Proc -> Job] /\ JobsIdentified
NoIdPhase == {"idle", "recover_waiting", "recover_locked"}

\* A process given well-typed locals keeps all locals well typed;
LEMMA JobsOKUpdate ==
    ASSUME JobsOK, NEW p \in Proc, NEW j \in Job,
           j.phase \notin NoIdPhase => j.id \in Id,
           job' = [job EXCEPT ![p] = j]
    PROVE  JobsOK'
BY DEF JobsOK, JobsIdentified, NoIdPhase

\* so does moving on to the next phase,
LEMMA GotoOK ==
    ASSUME JobsOK, NEW p \in Proc, NEW ph \in Phase,
           ph \notin NoIdPhase => job[p].id \in Id, Goto(p, ph)
    PROVE  JobsOK'
<1>1. [job[p] EXCEPT !.phase = ph] \in Job
  BY DEF JobsOK, Job
<1>2. /\ [job[p] EXCEPT !.phase = ph].phase = ph
      /\ [job[p] EXCEPT !.phase = ph].id = job[p].id
  BY DEF JobsOK, Job
<1>3. job' = [job EXCEPT ![p] = [job[p] EXCEPT !.phase = ph]]
  BY DEF Goto
<1>. QED
  BY <1>1, <1>2, <1>3, JobsOKUpdate

\* returning,
LEMMA FinishOK ==
    ASSUME JobsOK, NEW p \in Proc, Finish(p)
    PROVE  JobsOK'
BY JobsOKUpdate, EmptyTypes DEF Finish, IdleJob, NoIdPhase

\* starting a call,
LEMMA StartOK ==
    ASSUME JobsOK, jobs \in 0 .. MaxJobs, NEW p \in Proc, NEW j \in Job,
           j.phase \notin NoIdPhase => j.id \in Id, Start(p, j)
    PROVE  JobsOK' /\ jobs' \in 0 .. MaxJobs
<1>1. JobsOK'
  BY JobsOKUpdate DEF Start
<1>2. jobs' = jobs + 1 /\ jobs < MaxJobs
  BY DEF Start
<1>3. jobs' \in 0 .. MaxJobs
  BY <1>2, BoundAssumption
<1>. QED
  BY <1>1, <1>3

\* releasing the lock,
LEMMA ReleaseOK ==
    ASSUME lock \in Proc \cup {NoProc}, NEW p \in Proc, Release(p)
    PROVE  lock' \in Proc \cup {NoProc}
BY DEF Release

\* A call past its start works on an observation of the model.
LEMMA IdentifiedJob ==
    ASSUME JobsOK, NEW p \in Proc, job[p].phase \notin NoIdPhase
    PROVE  /\ job[p].id \in Id /\ job[p].id.batch \in Batch
           /\ job[p] \in Job /\ job[p].final \in Finalization
           /\ job[p].claim \in Claim /\ job[p].ticket \in Nat
BY DEF JobsOK, JobsIdentified, NoIdPhase, Job, Id

\* Leaving and entering the locked section keep the types.
LEMMA FinishLockedOK ==
    ASSUME JobsOK, StoreTypeOK, NEW p \in Proc, FinishLocked(p)
    PROVE  JobsOK' /\ StoreTypeOK'
BY FinishOK, ReleaseOK DEF FinishLocked, StoreTypeOK, JobsOK

\* Entering the locked section.
LEMMA AcquireLockOK ==
    ASSUME TypeInv, NEW p \in Proc, NEW from, NEW to \in Phase,
           to \notin NoIdPhase => from \notin NoIdPhase,
           AcquireLock(p, from, to)
    PROVE  TypeInv'
<1>1. JobsOK'
  BY GotoOK, IdentifiedJob DEF AcquireLock, At, TypeInv, TypeOK, StoreTypeOK, JobsOK
<1>. QED
  BY <1>1 DEF AcquireLock, TypeInv, TypeOK, StoreTypeOK, LogTypeOK, JobsOK, logVars

\* The death of a process keeps the types.
LEMMA CrashType ==
    ASSUME TypeInv, NEW p \in Proc, Crash(p)
    PROVE  TypeInv'
<1>1. JobsOK' /\ lock' \in Proc \cup {NoProc}
  BY FinishOK, ReleaseOK DEF Crash, TypeInv, TypeOK, StoreTypeOK, JobsOK
<1>. QED
  BY <1>1 DEF Crash, TypeInv, TypeOK, StoreTypeOK, LogTypeOK, JobsOK, logVars

\* What recovery finalizes is a finalization.
LEMMA ReconciledType ==
    ASSUME NEW S \in SUBSET Session, NEW h \in History
    PROVE  Reconciled(S, h) \in Finalization
BY DEF Reconciled, Finalization

\* Every logged event carries a claim of sessions.
LEMMA ClaimOfEvent ==
    ASSUME LogTypeOK, NEW i \in Id
    PROVE  lastEvent[i].claim \in Claim /\ lastEvent[i].claim.sessions \in SUBSET Session
BY DEF LogTypeOK, Event, Claim

\* Recovery of an append keeps the types.
LEMMA SettleAppendType ==
    ASSUME TypeInv, NEW p \in Proc, NEW i \in Id, SettleAppend(p, i)
    PROVE  TypeInv'
<1>. DEFINE f == Reconciled(lastEvent[i].claim.sessions, market)
<1>. LogTypeOK /\ StoreTypeOK /\ JobsOK
  BY DEF TypeInv, TypeOK, JobsOK, StoreTypeOK
<1>1. CASE RecordApplication(i, f)
  <2>1. f \in Finalization
    BY ReconciledType, ClaimOfEvent DEF StoreTypeOK
  <2>2. LogTypeOK'
    BY <1>1, <2>1, RecordApplicationType
  <2>3. UNCHANGED storeVars \/ FinishLocked(p)
    BY <1>1 DEF SettleAppend, AbandonIntent
  <2>4. StoreTypeOK' /\ JobsOK'
    BY <2>3, FinishLockedOK DEF storeVars, StoreTypeOK, JobsOK, JobsIdentified
  <2>. QED
    BY <2>2, <2>4 DEF TypeInv, TypeOK, JobsOK
<1>2. CASE AbandonIntent(i) /\ UNCHANGED storeVars
  <2>1. LogTypeOK'
    BY <1>2, AbandonIntentType
  <2>. QED
    BY <1>2, <2>1 DEF TypeInv, TypeOK, StoreTypeOK, storeVars, JobsIdentified
<1>. QED
  BY <1>1, <1>2 DEF SettleAppend

\* Recovery of a rebase keeps the types.
LEMMA SettleRebaseType ==
    ASSUME TypeInv, NEW p \in Proc, NEW i \in Id, SettleRebase(p, i)
    PROVE  TypeInv'
<1>. DEFINE e == lastEvent[i]
<1>. LogTypeOK /\ StoreTypeOK /\ JobsOK
  BY DEF TypeInv, TypeOK, JobsOK, StoreTypeOK
<1>1. CASE RecordRebase(i, e.claim, e.ticket)
  <2>2. LogTypeOK'
    BY <1>1, ClaimOfEvent, RecordRebaseType
  <2>3. UNCHANGED storeVars \/ FinishLocked(p)
    BY <1>1 DEF SettleRebase, AbandonIntent
  <2>4. StoreTypeOK' /\ JobsOK'
    BY <2>3, FinishLockedOK DEF storeVars, StoreTypeOK, JobsOK, JobsIdentified
  <2>. QED
    BY <2>2, <2>4 DEF TypeInv, TypeOK, JobsOK
<1>2. CASE AbandonIntent(i) /\ UNCHANGED storeVars
  <2>1. LogTypeOK'
    BY <1>2, AbandonIntentType
  <2>. QED
    BY <1>2, <2>1 DEF TypeInv, TypeOK, StoreTypeOK, storeVars, JobsIdentified
<1>. QED
  BY <1>1, <1>2 DEF SettleRebase

-----------------------------------------------------------------------------
(* Every action *)

\* Every step of an admission keeps the types.
LEMMA AdmissionType ==
    ASSUME TypeInv, NEW p \in Proc, Admission(p)
    PROVE  TypeInv'
<1>. USE DEF At
<1>. DEFINE b == job[p].id.batch
<1>1. /\ LogTypeOK /\ StoreTypeOK /\ JobsOK
      /\ (LogTypeOK /\ StoreTypeOK /\ JobsIdentified)' => TypeInv'
  BY DEF TypeInv, TypeOK, JobsOK, StoreTypeOK
<1>2. job[p].phase \notin NoIdPhase =>
        /\ job[p].id \in Id /\ b \in Batch
        /\ job[p] \in Job /\ job[p].final \in Finalization
        /\ job[p].claim \in Claim /\ job[p].ticket \in Nat
  BY <1>1, IdentifiedJob
<1>3. UNCHANGED logVars => LogTypeOK'
  BY <1>1 DEF LogTypeOK, logVars
<1>4. ASSUME JobsOK', market' \in History, lock' \in Proc \cup {NoProc},
             UNCHANGED <<jobs, edited>>
      PROVE  StoreTypeOK' /\ JobsIdentified'
  BY <1>1, <1>4 DEF StoreTypeOK, JobsOK
<1>5. market \in History /\ lock \in Proc \cup {NoProc}
  BY <1>1 DEF StoreTypeOK
<1>10. CASE ReuseReceipt(p)
  BY <1>10, <1>1, <1>3, <1>4, <1>5, FinishOK DEF ReuseReceipt
<1>11. CASE InvalidReceipt(p)
  <2>1. JobsOK'
    BY <1>11, <1>1, <1>2, GotoOK DEF InvalidReceipt, Phase, NoIdPhase
  <2>. QED
    BY <2>1, <1>11, <1>1, <1>3, <1>4, <1>5 DEF InvalidReceipt
<1>12. CASE NoReceipt(p)
  <2>1. JobsOK'
    BY <1>12, <1>1, <1>2, GotoOK DEF NoReceipt, Phase, NoIdPhase
  <2>. QED
    BY <2>1, <1>12, <1>1, <1>3, <1>4, <1>5 DEF NoReceipt
<1>13. CASE BindReadmission(p)
  <2>. DEFINE j == [job[p] EXCEPT !.phase = "readmitted", !.id.basis = version + 1]
  <2>1. job[p].id \in Id /\ job[p] \in Job
    BY <1>13, <1>2 DEF BindReadmission, NoIdPhase
  <2>2. version + 1 \in 0 .. MaxVersion + 1
    BY <1>13, <1>1, MaxVersionAssumption DEF BindReadmission, LogTypeOK
  <2>3. [job[p].id EXCEPT !.basis = version + 1] \in Id
    BY <2>1, <2>2 DEF Id
  <2>4. j \in Job /\ j.id \in Id
    BY <2>1, <2>3 DEF Job, Phase
  <2>5. job' = [job EXCEPT ![p] = j]
    BY <1>13 DEF BindReadmission
  <2>6. JobsOK'
    BY <2>4, <2>5, <1>1, JobsOKUpdate
  <2>. QED
    BY <2>6, <1>13, <1>1, <1>3, <1>4, <1>5 DEF BindReadmission
<1>14. CASE PersistReadmission(p)
  <2>1. JobsOK'
    BY <1>14, <1>1, <1>2, GotoOK DEF PersistReadmission, Phase, NoIdPhase
  <2>2. LogTypeOK'
    BY <1>14, <1>1, <1>2, PersistObservationType DEF PersistReadmission, NoIdPhase
  <2>. QED
    BY <2>1, <2>2, <1>14, <1>1, <1>4, <1>5 DEF PersistReadmission
<1>15. CASE Lock(p)
  BY <1>15, AcquireLockOK DEF Lock, Phase, NoIdPhase
<1>16. CASE \E i \in OpenIntents : Settle(p, i)
  BY <1>16, SettleAppendType, SettleRebaseType DEF Settle, OpenIntents
<1>17. CASE \E i \in OpenIntents : BlockAmbiguous(p, i)
  <2>1. RecordBlock(job[p].id, "BLOCKED_DATASET_MISMATCH", {}, EmptyHistory)
        /\ FinishLocked(p) /\ job[p].phase = "locked"
    BY <1>17 DEF BlockAmbiguous
  <2>2. LogTypeOK'
    BY <2>1, <1>1, <1>2, RecordBlockType, EmptyTypes DEF BlockResult, NoIdPhase
  <2>. QED
    BY <2>1, <2>2, <1>1, FinishLockedOK DEF JobsOK
<1>18. CASE Recovered(p)
  BY <1>18, <1>1, <1>3, FinishLockedOK DEF Recovered, JobsOK
<1>19. CASE Supersede(p)
  <2>1. JobsOK'
    BY <1>19, <1>1, <1>2, GotoOK DEF Supersede, Phase, NoIdPhase
  <2>2. LogTypeOK'
    BY <1>19, <1>1, <1>2, SupersedeOthersType DEF Supersede, NoIdPhase
  <2>. QED
    BY <2>1, <2>2, <1>19, <1>1, <1>4, <1>5 DEF Supersede
<1>20. CASE BlockMismatch(p)
  <2>1. LogTypeOK'
    BY <1>20, <1>1, <1>2, RecordBlockType, EmptyTypes
       DEF BlockMismatch, BlockResult, NoIdPhase
  <2>. QED
    BY <2>1, <1>20, <1>1, FinishLockedOK DEF BlockMismatch, JobsOK
<1>21. CASE BlockRevision(p)
  <2>1. /\ Classify(market, b) \in BlockResult
        /\ Affected(market, b) \in SUBSET Session
        /\ WindowRows(market, b) \in History
    BY <1>21, <1>5, BlockedResults, SessionSets, WindowRowsType DEF BlockRevision
  <2>2. LogTypeOK'
    BY <2>1, <1>21, <1>1, <1>2, RecordBlockType DEF BlockRevision, NoIdPhase
  <2>. QED
    BY <2>2, <1>21, <1>1, FinishLockedOK DEF BlockRevision, JobsOK
<1>22. CASE Decide(p)
  <2>. DEFINE S == NewSessions(market, b)
              f == [sessions |-> S, content |-> Write(market, b, S),
                    decision |-> ticket, bound |-> version,
                    confirmed |-> Confirmed(market, b)]
              j == [job[p] EXCEPT !.phase = "decided", !.final = f]
  <2>1. job[p].id \in Id /\ job[p] \in Job /\ b \in Batch
    BY <1>22, <1>2 DEF Decide, NoIdPhase
  <2>2. f \in Finalization
    BY <2>1, <1>1, <1>5, SessionSets, WriteType DEF Finalization, LogTypeOK
  <2>3. j \in Job /\ j.id = job[p].id
    BY <2>1, <2>2 DEF Job, Phase
  <2>4. job' = [job EXCEPT ![p] = j]
    BY <1>22 DEF Decide
  <2>5. JobsOK'
    BY <2>1, <2>3, <2>4, <1>1, JobsOKUpdate
  <2>6. LogTypeOK'
    BY <2>1, <1>22, <1>1, RecordDecisionType DEF Decide
  <2>. QED
    BY <2>5, <2>6, <1>22, <1>1, <1>4, <1>5 DEF Decide
<1>23. CASE FinalizeNoOp(p)
  <2>1. LogTypeOK'
    BY <1>23, <1>1, <1>2, RecordApplicationType DEF FinalizeNoOp, NoIdPhase
  <2>. QED
    BY <2>1, <1>23, <1>1, FinishLockedOK DEF FinalizeNoOp, JobsOK
<1>24. CASE ClaimSessions(p)
  <2>1. JobsOK'
    BY <1>24, <1>1, <1>2, GotoOK DEF ClaimSessions, Phase, NoIdPhase
  <2>2. job[p].final.sessions \in SUBSET Session
    BY <1>24, <1>2 DEF ClaimSessions, NoIdPhase, Finalization
  <2>3. LogTypeOK'
    BY <2>2, <1>24, <1>1, <1>2, RecordIntentType DEF ClaimSessions, NoIdPhase
  <2>. QED
    BY <2>1, <2>3, <1>24, <1>1, <1>4, <1>5 DEF ClaimSessions
<1>25. CASE AppendRows(p)
  <2>1. JobsOK' /\ market' \in History /\ lock' \in Proc \cup {NoProc}
    BY <1>25, <1>1, <1>2, <1>5, GotoOK, ReleaseOK, WriteType
       DEF AppendRows, Phase, NoIdPhase
  <2>. QED
    BY <2>1, <1>25, <1>1, <1>3, <1>4 DEF AppendRows
<1>26. CASE AppendFails(p)
  <2>1. JobsOK' /\ lock' \in Proc \cup {NoProc}
    BY <1>26, <1>1, <1>2, <1>5, GotoOK, ReleaseOK DEF AppendFails, Phase, NoIdPhase
  <2>. QED
    BY <2>1, <1>26, <1>1, <1>3, <1>4, <1>5 DEF AppendFails
<1>27. CASE FinalizeAppend(p)
  <2>1. LogTypeOK'
    BY <1>27, <1>1, <1>2, RecordApplicationType DEF FinalizeAppend, NoIdPhase
  <2>. QED
    BY <2>1, <1>27, <1>1, <1>4, <1>5, FinishOK DEF FinalizeAppend
<1>28. CASE AbandonAfterRollback(p)
  <2>1. LogTypeOK'
    BY <1>28, <1>1, <1>2, AbandonIntentType DEF AbandonAfterRollback, NoIdPhase
  <2>. QED
    BY <2>1, <1>28, <1>1, <1>4, <1>5, FinishOK DEF AbandonAfterRollback
<1>. QED
  BY <1>10, <1>11, <1>12, <1>13, <1>14, <1>15, <1>16, <1>17, <1>18, <1>19,
     <1>20, <1>21, <1>22, <1>23, <1>24, <1>25, <1>26, <1>27, <1>28
     DEF Admission

\* Starting a call keeps the types.
LEMMA CallType ==
    ASSUME TypeInv, NEW p \in Proc, Call(p)
    PROVE  TypeInv'
<1>1. /\ LogTypeOK /\ StoreTypeOK /\ JobsOK
      /\ (LogTypeOK /\ StoreTypeOK /\ JobsIdentified)' => TypeInv'
  BY DEF TypeInv, TypeOK, JobsOK, StoreTypeOK
<1>2. ASSUME JobsOK', jobs' \in 0 .. MaxJobs, UNCHANGED <<market, lock, edited>>
      PROVE  StoreTypeOK' /\ JobsIdentified'
  BY <1>1, <1>2 DEF StoreTypeOK, JobsOK
<1>3. CASE \E b \in Batch : Observe(p, b)
  <2>1. PICK b \in Batch : Observe(p, b)
    BY <1>3
  <2>. DEFINE j == [IdleJob EXCEPT !.phase = "observed", !.id = Observation(b)]
  <2>2. Observation(b) \in Id
    BY MaxVersionAssumption DEF Observation, Id
  <2>3. j \in Job /\ j.id \in Id
    BY <2>2, EmptyTypes DEF Job, IdleJob, Phase
  <2>4. Start(p, j)
    BY <2>1 DEF Observe
  <2>5. JobsOK' /\ jobs' \in 0 .. MaxJobs
    BY <2>3, <2>4, <1>1, StartOK DEF StoreTypeOK
  <2>6. LogTypeOK'
    BY <2>1, <2>2, <1>1, PersistObservationType DEF Observe
  <2>. QED
    BY <2>1, <2>5, <2>6, <1>1, <1>2 DEF Observe
<1>4. CASE \E k \in block : RequestRebase(p, k)
  <2>1. PICK k \in block : RequestRebase(p, k)
    BY <1>4
  <2>. DEFINE j == [IdleJob EXCEPT !.phase = "rebase_waiting", !.id = k.id,
                                   !.block = k.ticket]
  <2>2. k.id \in Id /\ k.ticket \in Nat
    BY <1>1 DEF LogTypeOK, Block
  <2>3. j \in Job /\ j.id \in Id
    BY <2>2, EmptyTypes DEF Job, IdleJob, Phase
  <2>4. Start(p, j)
    BY <2>1 DEF RequestRebase
  <2>5. JobsOK' /\ jobs' \in 0 .. MaxJobs
    BY <2>3, <2>4, <1>1, StartOK DEF StoreTypeOK
  <2>. QED
    BY <2>1, <2>5, <1>1, <1>2 DEF RequestRebase, LogTypeOK, logVars
<1>5. CASE RequestRecovery(p)
  <2>. DEFINE j == [IdleJob EXCEPT !.phase = "recover_waiting"]
  <2>1. j \in Job /\ j.phase = "recover_waiting"
    BY EmptyTypes DEF Job, IdleJob, Phase
  <2>2. Start(p, j)
    BY <1>5 DEF RequestRecovery
  <2>3. JobsOK' /\ jobs' \in 0 .. MaxJobs
    BY <2>1, <2>2, <1>1, StartOK DEF StoreTypeOK, NoIdPhase
  <2>. QED
    BY <1>5, <2>3, <1>1, <1>2 DEF RequestRecovery, LogTypeOK, logVars
<1>. QED
  BY <1>3, <1>4, <1>5 DEF Call

\* The plan of a rebase is a claim.
LEMMA RebaseClaimType ==
    ASSUME TypeInv, NEW k \in block
    PROVE  RebaseClaim(k) \in Claim
<1>. DEFINE S == Changed(market, k.id.batch)
            post == Write(market, k.id.batch, S)
<1>1. k.id.batch \in Batch /\ k.ticket \in Nat /\ market \in History /\ version \in Nat
  BY DEF TypeInv, TypeOK, LogTypeOK, StoreTypeOK, Block, Id
<1>2. S \in SUBSET Session /\ post \in History
  BY <1>1, SessionSets, WriteType
<1>3. SupersededBlocks(k, post) \in SUBSET Nat
  BY DEF SupersededBlocks, Unresolved, TypeInv, TypeOK, LogTypeOK, Block
<1>. QED
  BY <1>1, <1>2, <1>3 DEF RebaseClaim, Claim

\* Every step of a rebase or a recovery keeps the types.
LEMMA ReviewedType ==
    ASSUME TypeInv, NEW p \in Proc, Reviewed(p)
    PROVE  TypeInv'
<1>. USE DEF At
<1>1. /\ LogTypeOK /\ StoreTypeOK /\ JobsOK
      /\ (LogTypeOK /\ StoreTypeOK /\ JobsIdentified)' => TypeInv'
  BY DEF TypeInv, TypeOK, JobsOK, StoreTypeOK
<1>2. job[p].phase \notin NoIdPhase =>
        /\ job[p].id \in Id /\ job[p].id.batch \in Batch
        /\ job[p] \in Job /\ job[p].final \in Finalization
        /\ job[p].claim \in Claim /\ job[p].ticket \in Nat
  BY <1>1, IdentifiedJob
<1>3. UNCHANGED logVars => LogTypeOK'
  BY <1>1 DEF LogTypeOK, logVars
<1>4. ASSUME JobsOK', market' \in History, lock' \in Proc \cup {NoProc},
             UNCHANGED <<jobs, edited>>
      PROVE  StoreTypeOK' /\ JobsIdentified'
  BY <1>1, <1>4 DEF StoreTypeOK, JobsOK
<1>5. market \in History /\ lock \in Proc \cup {NoProc}
  BY <1>1 DEF StoreTypeOK
<1>10. CASE \E k \in block : PlanRebase(p, k)
  <2>1. PICK k \in block : PlanRebase(p, k)
    BY <1>10
  <2>. DEFINE j == [job[p] EXCEPT !.phase = "rebase_planned",
                                  !.claim = RebaseClaim(k)]
  <2>2. job[p].id \in Id /\ job[p] \in Job
    BY <2>1, <1>2 DEF PlanRebase, NoIdPhase
  <2>3. j \in Job /\ j.id = job[p].id
    BY <2>2, RebaseClaimType DEF Job, Phase
  <2>4. job' = [job EXCEPT ![p] = j]
    BY <2>1 DEF PlanRebase
  <2>5. JobsOK'
    BY <2>2, <2>3, <2>4, <1>1, JobsOKUpdate
  <2>. QED
    BY <2>1, <2>5, <1>1, <1>3, <1>4, <1>5 DEF PlanRebase
<1>11. CASE LockRebase(p)
  BY <1>11, AcquireLockOK DEF LockRebase, Phase, NoIdPhase
<1>12. CASE RefuseRebase(p)
  BY <1>12, <1>1, <1>3, FinishLockedOK DEF RefuseRebase, JobsOK
<1>13. CASE \E i \in OpenRebases : RebaseSettle(p, i) \/ RecoverySettle(p, i)
  BY <1>13, SettleRebaseType DEF RebaseSettle, RecoverySettle, OpenRebases
<1>14. CASE ClaimBlock(p)
  <2>. DEFINE j == [job[p] EXCEPT !.phase = "rebase_claimed", !.ticket = ticket]
  <2>1. job[p].id \in Id /\ job[p] \in Job /\ job[p].claim \in Claim
    BY <1>14, <1>2 DEF ClaimBlock, NoIdPhase
  <2>2. j \in Job /\ j.id = job[p].id
    BY <2>1, <1>1 DEF Job, Phase, LogTypeOK
  <2>3. job' = [job EXCEPT ![p] = j]
    BY <1>14 DEF ClaimBlock
  <2>4. JobsOK'
    BY <2>1, <2>2, <2>3, <1>1, JobsOKUpdate
  <2>5. LogTypeOK'
    BY <2>1, <1>14, <1>1, RecordRebaseIntentType DEF ClaimBlock
  <2>. QED
    BY <2>4, <2>5, <1>14, <1>1, <1>4, <1>5 DEF ClaimBlock
<1>15. CASE ClaimRefused(p)
  BY <1>15, <1>1, <1>3, FinishLockedOK DEF ClaimRefused, JobsOK
<1>16. CASE RewriteRows(p)
  <2>1. JobsOK' /\ market' \in History /\ lock' \in Proc \cup {NoProc}
    BY <1>16, <1>1, <1>2, <1>5, GotoOK, ReleaseOK, WriteType
       DEF RewriteRows, Phase, NoIdPhase
  <2>. QED
    BY <2>1, <1>16, <1>1, <1>3, <1>4 DEF RewriteRows
<1>17. CASE RewriteFails(p)
  <2>1. JobsOK' /\ lock' \in Proc \cup {NoProc}
    BY <1>17, <1>1, <1>2, <1>5, GotoOK, ReleaseOK DEF RewriteFails, Phase, NoIdPhase
  <2>. QED
    BY <2>1, <1>17, <1>1, <1>3, <1>4, <1>5 DEF RewriteFails
<1>18. CASE FinalizeRebase(p)
  <2>1. LogTypeOK'
    BY <1>18, <1>1, <1>2, RecordRebaseType DEF FinalizeRebase, NoIdPhase
  <2>. QED
    BY <2>1, <1>18, <1>1, <1>4, <1>5, FinishOK DEF FinalizeRebase
<1>19. CASE LockRecovery(p)
  BY <1>19, AcquireLockOK DEF LockRecovery, Phase, NoIdPhase
<1>20. CASE FinishRecovery(p)
  BY <1>20, <1>1, <1>3, FinishLockedOK DEF FinishRecovery, JobsOK
<1>. QED
  BY <1>10, <1>11, <1>12, <1>13, <1>14, <1>15, <1>16, <1>17, <1>18, <1>19,
     <1>20 DEF Reviewed

\* Every step keeps the types.
LEMMA NextType ==
    ASSUME TypeInv, [Next]_vars
    PROVE  TypeInv'
<1>1. CASE \E p \in Proc : Call(p)
  BY <1>1, CallType
<1>2. CASE \E p \in Proc : Progress(p)
  BY <1>2, AdmissionType, ReviewedType DEF Progress
<1>3. CASE \E p \in Proc : Crash(p)
  BY <1>3, CrashType
<1>4. CASE \E k \in block : Review(k)
  <2>1. LogTypeOK'
    BY <1>4, ResolveBlockType DEF Review, TypeInv, TypeOK
  <2>. QED
    BY <1>4, <2>1 DEF Review, TypeInv, TypeOK, StoreTypeOK, JobsIdentified, storeVars
<1>5. CASE \E h \in InitialHistory : EditOutOfBand(h)
  BY <1>5, InitialHistoryAssumption
     DEF EditOutOfBand, TypeInv, TypeOK, StoreTypeOK, LogTypeOK, JobsIdentified, logVars
<1>6. CASE UNCHANGED vars
  BY <1>6 DEF vars, storeVars, logVars, TypeInv, TypeOK, StoreTypeOK, LogTypeOK,
              JobsIdentified
<1>. QED
  BY <1>1, <1>2, <1>3, <1>4, <1>5, <1>6 DEF Next

\* The types hold initially.
LEMMA InitType ==
    ASSUME Init
    PROVE  TypeInv
<1>1. PICK h \in InitialHistory : LogInit(h) /\ market = h
  BY DEF Init
<1>2. LogTypeOK
  BY <1>1, EmptyTypes, InitialHistoryAssumption DEF LogInit, LogTypeOK
<1>3. StoreTypeOK
  <2>1. market \in History
    BY <1>1, InitialHistoryAssumption
  <2>2. job \in [Proc -> Job]
    BY EmptyTypes DEF Init
  <2>3. jobs = 0 /\ 0 \in 0 .. MaxJobs
    BY BoundAssumption DEF Init
  <2>. QED
    BY <2>1, <2>2, <2>3 DEF Init, StoreTypeOK
<1>4. JobsIdentified
  BY DEF Init, JobsIdentified, IdleJob
<1>. QED
  BY <1>2, <1>3, <1>4 DEF TypeInv, TypeOK

\* The stores, the log and every process keep their types, for any number of
\* processes, batches and sessions, whatever fails and whoever edits market.db.
THEOREM MarketTypeCorrect == Spec => []TypeOK
<1>1. Spec => []TypeInv
  BY InitType, NextType, PTL DEF Spec
<1>. QED
  BY <1>1, PTL DEF TypeInv

-----------------------------------------------------------------------------
(* The invariant, when nothing fails inside a write *)

Faultless == WriteMayFail = FALSE /\ OutOfBandEdit = FALSE

-----------------------------------------------------------------------------
(* The locals and the lock of the processes *)

ControlInv == /\ LockDiscipline
              /\ TicketsIssued
              /\ ~WriteMayFail => NothingFailed

\* How one step of p may move it in or out of the locked section.
LockMoves(p, j) ==
    \/ /\ lock' = lock
       /\ j.phase \in LockedPhase <=> job[p].phase \in LockedPhase
    \/ lock = NoProc /\ lock' = p /\ j.phase \in LockedPhase
    \/ Release(p) /\ j.phase \notin LockedPhase

\* One process moving so keeps the lock discipline.
LEMMA JobStep ==
    ASSUME TypeInv, TypeInv', ControlInv, NEW p \in Proc, NEW j,
           job' = [job EXCEPT ![p] = j], j.phase = "failed" => WriteMayFail,
           j.ticket < ticket', ticket <= ticket', LockMoves(p, j)
    PROVE  ControlInv'
<1>1. /\ job \in [Proc -> Job] /\ ticket \in Nat /\ ticket' \in Nat
      /\ lock \in Proc \cup {NoProc} /\ NoProc \notin Proc
  BY ProcAssumption DEF TypeInv, TypeOK, StoreTypeOK, LogTypeOK
<1>2. job'[p] = j /\ \A q \in Proc : q # p => job'[q] = job[q]
  BY <1>1
<1>3. ~WriteMayFail => NothingFailed'
  BY <1>2 DEF NothingFailed, ControlInv
<1>4. \A q \in Proc : job[q].ticket \in Nat
  BY <1>1 DEF Job
<1>5. TicketsIssued'
  BY <1>1, <1>2, <1>4 DEF TicketsIssued, ControlInv
<1>6. LockDiscipline'
  BY <1>1, <1>2 DEF LockDiscipline, ControlInv, LockMoves, Release
<1>. QED
  BY <1>3, <1>5, <1>6 DEF ControlInv

\* The same for the operators that move a process.
LEMMA GotoStep ==
    ASSUME TypeInv, TypeInv', ControlInv, NEW p \in Proc, NEW ph \in Phase,
           Goto(p, ph), ph = "failed" => WriteMayFail, ticket <= ticket',
           LockMoves(p, [phase |-> ph])
    PROVE  ControlInv'
<1>. DEFINE j == [job[p] EXCEPT !.phase = ph]
<1>1. job[p] \in Job /\ ticket \in Nat /\ ticket' \in Nat /\ job[p].ticket < ticket
  BY DEF TypeInv, TypeOK, StoreTypeOK, LogTypeOK, ControlInv, TicketsIssued
<1>2. j.phase = ph /\ j.ticket = job[p].ticket /\ j.ticket \in Nat
  BY <1>1 DEF Job
<1>3. j.ticket < ticket'
  BY <1>1, <1>2
<1>4. job' = [job EXCEPT ![p] = j]
  BY DEF Goto
<1>5. LockMoves(p, j)
  BY <1>2 DEF LockMoves
<1>. QED
  BY <1>2, <1>3, <1>4, <1>5, JobStep

\* when it returns,
LEMMA FinishStep ==
    ASSUME TypeInv, TypeInv', ControlInv, NEW p \in Proc, Finish(p),
           ticket <= ticket',
           Release(p) \/ (lock' = lock /\ job[p].phase \notin LockedPhase)
    PROVE  ControlInv'
<1>1. IdleJob.phase = "idle" /\ IdleJob.ticket = 0
  BY DEF IdleJob
<1>2. ticket \in Nat \ {0} /\ ticket' \in Nat \ {0}
  BY DEF TypeInv, TypeOK, LogTypeOK
<1>3. LockMoves(p, IdleJob)
  BY <1>1 DEF LockMoves, LockedPhase
<1>4. IdleJob.ticket < ticket'
  BY <1>1, <1>2
<1>. QED
  BY <1>1, <1>3, <1>4, JobStep DEF Finish

\* and when no process moves.
LEMMA UnchangedControl ==
    ASSUME TypeInv, TypeInv', ControlInv, UNCHANGED storeVars, ticket <= ticket'
    PROVE  ControlInv'
<1>1. ticket \in Nat /\ ticket' \in Nat /\ \A q \in Proc : job[q].ticket \in Nat
  BY DEF TypeInv, TypeOK, LogTypeOK, StoreTypeOK, Job
<1>2. TicketsIssued'
  BY <1>1 DEF TicketsIssued, ControlInv, storeVars
<1>. QED
  BY <1>2 DEF ControlInv, LockDiscipline, NothingFailed, storeVars

\* What a transaction of the log does to the ticket counter.
LEMMA TicketsGrow ==
    ASSUME TypeInv, NEW i
    PROVE  /\ UNCHANGED logVars => ticket <= ticket'
           /\ PersistObservation(i) => ticket <= ticket'
           /\ RecordDecision(i) => ticket <= ticket'
           /\ \A S : RecordIntent(i, S) => ticket <= ticket'
           /\ \A r, S, w : RecordBlock(i, r, S, w) => ticket <= ticket'
           /\ AbandonIntent(i) => ticket <= ticket'
           /\ SupersedeOthers(i) => ticket <= ticket'
           /\ \A f : RecordApplication(i, f) => ticket <= ticket'
           /\ \A c : RecordRebaseIntent(i, c) => ticket < ticket'
           /\ \A c, t : RecordRebase(i, c, t) => ticket <= ticket'
<1>1. ticket \in Nat
  BY DEF TypeInv, TypeOK, LogTypeOK
<1>. QED
  BY <1>1 DEF logVars, PersistObservation, RecordDecision, RecordIntent, RecordBlock,
              AbandonIntent, SupersedeOthers, RecordApplication, RecordRebaseIntent,
              RecordRebase

\* The steps of an admission keep the lock discipline.
LEMMA ControlAdmission ==
    ASSUME TypeInv, TypeInv', ControlInv, NEW p \in Proc, Admission(p)
    PROVE  ControlInv'
<1>. USE DEF At
<1>10. CASE ReuseReceipt(p)
  BY <1>10, TicketsGrow, FinishStep DEF ReuseReceipt, LockedPhase
<1>11. CASE InvalidReceipt(p) \/ NoReceipt(p)
  BY <1>11, TicketsGrow, GotoStep
     DEF InvalidReceipt, NoReceipt, LockMoves, LockedPhase, Phase
<1>12. CASE BindReadmission(p)
  <2>. DEFINE j == [job[p] EXCEPT !.phase = "readmitted", !.id.basis = version + 1]
  <2>1. job[p] \in Job /\ ticket \in Nat /\ job[p].ticket < ticket
    BY DEF TypeInv, TypeOK, StoreTypeOK, LogTypeOK, ControlInv, TicketsIssued
  <2>2. j.phase = "readmitted" /\ j.ticket = job[p].ticket
    BY <2>1 DEF Job
  <2>3. ticket' = ticket /\ lock' = lock /\ job' = [job EXCEPT ![p] = j]
    BY <1>12 DEF BindReadmission, logVars
  <2>4. LockMoves(p, j)
    BY <1>12, <2>2, <2>3 DEF BindReadmission, LockMoves, LockedPhase
  <2>5. j.ticket < ticket' /\ ticket <= ticket'
    BY <2>1, <2>2, <2>3
  <2>. QED
    BY <2>2, <2>3, <2>4, <2>5, JobStep
<1>13. CASE PersistReadmission(p)
  BY <1>13, TicketsGrow, GotoStep
     DEF PersistReadmission, LockMoves, LockedPhase, Phase
<1>14. CASE Lock(p)
  BY <1>14, TicketsGrow, GotoStep
     DEF Lock, AcquireLock, LockMoves, LockedPhase, Phase
<1>15. CASE \E i \in OpenIntents : Settle(p, i)
  <2>1. PICK i \in OpenIntents : SettleAppend(p, i) \/ SettleRebase(p, i)
    BY <1>15 DEF Settle
  <2>2. ticket <= ticket'
    BY <2>1, TicketsGrow DEF SettleAppend, SettleRebase
  <2>3. UNCHANGED storeVars \/ FinishLocked(p)
    BY <2>1 DEF SettleAppend, SettleRebase
  <2>4. CASE FinishLocked(p)
    BY <2>2, <2>4, FinishStep DEF FinishLocked
  <2>5. CASE UNCHANGED storeVars
    BY <2>2, <2>5, UnchangedControl
  <2>. QED
    BY <2>3, <2>4, <2>5
<1>16. CASE \E i \in OpenIntents : BlockAmbiguous(p, i)
  BY <1>16, TicketsGrow, FinishStep DEF BlockAmbiguous, FinishLocked
<1>17. CASE Recovered(p) \/ BlockMismatch(p) \/ BlockRevision(p) \/ FinalizeNoOp(p)
  BY <1>17, TicketsGrow, FinishStep
     DEF Recovered, BlockMismatch, BlockRevision, FinalizeNoOp, FinishLocked
<1>18. CASE Supersede(p) \/ ClaimSessions(p)
  BY <1>18, TicketsGrow, GotoStep
     DEF Supersede, ClaimSessions, LockMoves, LockedPhase, Phase
<1>19. CASE Decide(p)
  <2>. DEFINE b == job[p].id.batch
              S == NewSessions(market, b)
              f == [sessions |-> S, content |-> Write(market, b, S),
                    decision |-> ticket, bound |-> version,
                    confirmed |-> Confirmed(market, b)]
              j == [job[p] EXCEPT !.phase = "decided", !.final = f]
  <2>1. job[p] \in Job /\ ticket \in Nat /\ job[p].ticket < ticket
    BY DEF TypeInv, TypeOK, StoreTypeOK, LogTypeOK, ControlInv, TicketsIssued
  <2>2. j.phase = "decided" /\ j.ticket = job[p].ticket /\ j.ticket \in Nat
    BY <2>1 DEF Job
  <2>3. ticket' = ticket + 1 /\ lock' = lock /\ job' = [job EXCEPT ![p] = j]
    BY <1>19 DEF Decide, RecordDecision
  <2>4. LockMoves(p, j)
    BY <1>19, <2>2, <2>3 DEF Decide, LockMoves, LockedPhase
  <2>5. j.ticket < ticket' /\ ticket <= ticket'
    BY <2>1, <2>2, <2>3
  <2>. QED
    BY <2>2, <2>3, <2>4, <2>5, JobStep
<1>20. CASE AppendRows(p) \/ AppendFails(p)
  BY <1>20, TicketsGrow, GotoStep
     DEF AppendRows, AppendFails, LockMoves, LockedPhase, Phase
<1>21. CASE FinalizeAppend(p) \/ AbandonAfterRollback(p)
  BY <1>21, TicketsGrow, FinishStep
     DEF FinalizeAppend, AbandonAfterRollback, LockedPhase
<1>. QED
  BY <1>10, <1>11, <1>12, <1>13, <1>14, <1>15, <1>16, <1>17, <1>18, <1>19, <1>20,
     <1>21 DEF Admission

\* The steps of a rebase or a recovery keep the lock discipline.
LEMMA ControlReviewed ==
    ASSUME TypeInv, TypeInv', ControlInv, NEW p \in Proc, Reviewed(p)
    PROVE  ControlInv'
<1>. USE DEF At
<1>1. job[p] \in Job /\ ticket \in Nat /\ job[p].ticket < ticket /\ job[p].ticket \in Nat
  BY DEF TypeInv, TypeOK, StoreTypeOK, LogTypeOK, ControlInv, TicketsIssued, Job
<1>10. CASE \E k \in block : PlanRebase(p, k)
  <2>1. PICK k \in block : PlanRebase(p, k)
    BY <1>10
  <2>. DEFINE j == [job[p] EXCEPT !.phase = "rebase_planned",
                                  !.claim = RebaseClaim(k)]
  <2>2. j.phase = "rebase_planned" /\ j.ticket = job[p].ticket
    BY <1>1 DEF Job
  <2>3. ticket' = ticket /\ lock' = lock /\ job' = [job EXCEPT ![p] = j]
    BY <2>1 DEF PlanRebase, logVars
  <2>4. LockMoves(p, j)
    BY <2>1, <2>2, <2>3 DEF PlanRebase, LockMoves, LockedPhase
  <2>5. j.ticket < ticket' /\ ticket <= ticket'
    BY <1>1, <2>2, <2>3
  <2>. QED
    BY <2>2, <2>3, <2>4, <2>5, JobStep
<1>11. CASE LockRebase(p) \/ LockRecovery(p)
  BY <1>11, TicketsGrow, GotoStep
     DEF LockRebase, LockRecovery, AcquireLock, LockMoves, LockedPhase, Phase
<1>12. CASE RefuseRebase(p) \/ ClaimRefused(p) \/ FinishRecovery(p)
  BY <1>12, TicketsGrow, FinishStep
     DEF RefuseRebase, ClaimRefused, FinishRecovery, FinishLocked
<1>13. CASE \E i \in OpenRebases : RebaseSettle(p, i) \/ RecoverySettle(p, i)
  <2>1. PICK i \in OpenRebases : SettleRebase(p, i)
    BY <1>13 DEF RebaseSettle, RecoverySettle
  <2>2. ticket <= ticket'
    BY <2>1, TicketsGrow DEF SettleRebase
  <2>3. CASE FinishLocked(p)
    BY <2>2, <2>3, FinishStep DEF FinishLocked
  <2>4. CASE UNCHANGED storeVars
    BY <2>2, <2>4, UnchangedControl
  <2>. QED
    BY <2>1, <2>3, <2>4 DEF SettleRebase
<1>14. CASE ClaimBlock(p)
  <2>. DEFINE j == [job[p] EXCEPT !.phase = "rebase_claimed", !.ticket = ticket]
  <2>1. j.phase = "rebase_claimed" /\ j.ticket = ticket
    BY <1>1 DEF Job
  <2>2. ticket' = ticket + 1 /\ lock' = lock /\ job' = [job EXCEPT ![p] = j]
    BY <1>14 DEF ClaimBlock, RecordRebaseIntent
  <2>3. LockMoves(p, j)
    BY <1>14, <2>1, <2>2 DEF ClaimBlock, LockMoves, LockedPhase
  <2>4. j.ticket < ticket' /\ ticket <= ticket'
    BY <1>1, <2>1, <2>2
  <2>. QED
    BY <2>1, <2>2, <2>3, <2>4, JobStep
<1>15. CASE RewriteRows(p) \/ RewriteFails(p)
  BY <1>15, TicketsGrow, GotoStep
     DEF RewriteRows, RewriteFails, LockMoves, LockedPhase, Phase
<1>16. CASE FinalizeRebase(p)
  BY <1>16, TicketsGrow, FinishStep DEF FinalizeRebase, LockedPhase
<1>. QED
  BY <1>10, <1>11, <1>12, <1>13, <1>14, <1>15, <1>16 DEF Reviewed

\* A call begins in one of three phases, with no ticket.
LEMMA CallStarts ==
    ASSUME NEW p, Call(p)
    PROVE  \E j : /\ Start(p, j) /\ j.ticket = 0
                  /\ j.phase \in {"observed", "rebase_waiting", "recover_waiting"}
<1>1. CASE \E b \in Batch : Observe(p, b)
  <2>1. PICK b \in Batch : Observe(p, b)
    BY <1>1
  <2>2. PICK j : j = [IdleJob EXCEPT !.phase = "observed", !.id = Observation(b)]
    OBVIOUS
  <2>3. j.ticket = 0 /\ j.phase = "observed"
    BY <2>2 DEF IdleJob
  <2>4. Start(p, j)
    BY <2>1, <2>2 DEF Observe
  <2>. QED
    BY <2>3, <2>4
<1>2. CASE \E k \in block : RequestRebase(p, k)
  <2>1. PICK k \in block : RequestRebase(p, k)
    BY <1>2
  <2>2. PICK j : j = [IdleJob EXCEPT !.phase = "rebase_waiting", !.id = k.id,
                                     !.block = k.ticket]
    OBVIOUS
  <2>3. j.ticket = 0 /\ j.phase = "rebase_waiting"
    BY <2>2 DEF IdleJob
  <2>4. Start(p, j)
    BY <2>1, <2>2 DEF RequestRebase
  <2>. QED
    BY <2>3, <2>4
<1>3. CASE RequestRecovery(p)
  BY <1>3 DEF RequestRecovery, IdleJob
<1>. QED
  BY <1>1, <1>2, <1>3 DEF Call

\* Every step keeps the locked section and the lock together.
LEMMA ControlNext ==
    ASSUME TypeInv, ControlInv, [Next]_vars
    PROVE  ControlInv'
<1>1. TypeInv'
  BY NextType
<1>2. \A p \in Proc : Admission(p) \/ Reviewed(p) => ControlInv'
  BY <1>1, ControlAdmission, ControlReviewed
<1>3. ASSUME NEW p \in Proc, Crash(p) PROVE ControlInv'
  BY <1>1, <1>3, TicketsGrow, FinishStep DEF Crash
<1>4. ASSUME NEW p \in Proc, Call(p) PROVE ControlInv'
  <2>1. PICK j : /\ Start(p, j) /\ j.ticket = 0
                 /\ j.phase \in {"observed", "rebase_waiting", "recover_waiting"}
    BY <1>4, CallStarts
  <2>2. lock' = lock /\ ticket' = ticket
    BY <1>4 DEF Call, Observe, RequestRebase, RequestRecovery, logVars,
                PersistObservation
  <2>3. LockMoves(p, j)
    BY <2>1, <2>2 DEF Start, LockMoves, LockedPhase, At
  <2>4. ticket \in Nat \ {0}
    BY DEF TypeInv, TypeOK, LogTypeOK
  <2>5. j.ticket < ticket' /\ ticket <= ticket'
    BY <2>1, <2>2, <2>4
  <2>. QED
    BY <1>1, <2>1, <2>3, <2>5, JobStep DEF Start
<1>5. ASSUME NEW k \in block, Review(k) PROVE ControlInv'
  BY <1>1, <1>5, UnchangedControl, TicketsGrow
     DEF Review, ResolveBlock, TypeInv, TypeOK, LogTypeOK
<1>6. CASE UNCHANGED vars
  BY <1>1, <1>6, UnchangedControl, TicketsGrow DEF vars
<1>7. ASSUME NEW h, EditOutOfBand(h) PROVE ControlInv'
  BY <1>7 DEF EditOutOfBand, ControlInv, LockDiscipline, TicketsIssued, NothingFailed,
              logVars
<1>. QED
  BY <1>2, <1>3, <1>4, <1>5, <1>6, <1>7 DEF Next, Progress

-----------------------------------------------------------------------------
(* What a step may do to the market and to the log *)

CoreInv == /\ OneOpenIntent /\ IntentsExplainMarket
           /\ SettledMarketIsVersioned /\ VersionAttributed

\* The part of it that holds even when writes fail.
ClaimInv == OneOpenIntent /\ IntentsExplainMarket /\ VersionAttributed

LEMMA CoreClaims == CoreInv => ClaimInv
BY DEF CoreInv, ClaimInv

\* Nothing of the market, its versions or the open intents changes.
QuietStep ==
    /\ \A i \in Id : \/ lastEvent'[i] = lastEvent[i]
                     \/ /\ lastEvent[i].kind \notin IntentKind
                        /\ lastEvent'[i].kind \notin IntentKind
    /\ UNCHANGED <<market, content, version, owner, baseline>>
    /\ receipt \subseteq receipt'
    /\ \A i \in OpenRebases : lastEvent[i].claim.block \notin Resolved'

\* Observation i claims a change of a settled market.
ClaimingStep(i) ==
    /\ i \in Id /\ OpenIntents = {} /\ OpenIntents' = {i}
    /\ lastEvent'[i].kind = "INTENT" => AppendClaimed(i)'
    /\ lastEvent'[i].kind = "REBASE_INTENT" =>
         RewriteClaimed(i)' /\ lastEvent'[i].ticket = ticket
    /\ UNCHANGED <<market, content, version, receipt, owner, baseline>>

\* The claimed change of i is committed to market.db.
WritingStep(i) ==
    /\ i \in OpenIntents /\ market = content
    /\ market' = Write(content, i.batch, lastEvent[i].claim.sessions)
    /\ UNCHANGED logVars

\* The committed change of i becomes the next version.
AttributingStep(i) ==
    /\ i \in OpenIntents /\ OpenIntents' = {}
    /\ market # content /\ content' = market /\ version' = version + 1
    /\ receipt' = receipt \cup {i}
    /\ VersionAttributed'
    /\ UNCHANGED market

\* The claim of a change that never reached market.db is withdrawn.
AbandoningStep ==
    /\ OpenIntents # {} /\ OpenIntents' = {} /\ market = content
    /\ UNCHANGED <<market, content, version, receipt, owner, baseline>>

\* Each kind of step keeps what the log says of the market.
LEMMA QuietClaims ==
    ASSUME ClaimInv, QuietStep
    PROVE  ClaimInv' /\ OpenIntents' = OpenIntents
<1>1. OpenIntents' = OpenIntents
  BY DEF QuietStep, OpenIntents
<1>2. \A i \in OpenIntents : lastEvent'[i] = lastEvent[i]
  BY DEF QuietStep, OpenIntents
<1>3. OneOpenIntent' /\ VersionAttributed'
  BY <1>1 DEF ClaimInv, OneOpenIntent, VersionAttributed, QuietStep, Stored, Within
<1>4. ASSUME NEW i \in Id, lastEvent'[i].kind = "INTENT" PROVE AppendClaimed(i)'
  <2>1. i \in OpenIntents /\ lastEvent'[i] = lastEvent[i]
    BY <1>1, <1>2, <1>4 DEF OpenIntents, IntentKind
  <2>. QED
    BY <2>1, <1>4 DEF ClaimInv, IntentsExplainMarket, AppendClaimed, QuietStep
<1>5. ASSUME NEW i \in Id, lastEvent'[i].kind = "REBASE_INTENT" PROVE RewriteClaimed(i)'
  <2>1. i \in OpenIntents /\ lastEvent'[i] = lastEvent[i]
    BY <1>1, <1>2, <1>5 DEF OpenIntents, IntentKind
  <2>2. i \in OpenRebases
    BY <2>1, <1>5 DEF OpenRebases
  <2>. QED
    BY <2>1, <2>2, <1>5
       DEF ClaimInv, IntentsExplainMarket, RewriteClaimed, IsRewrite, QuietStep
<1>. QED
  BY <1>1, <1>3, <1>4, <1>5 DEF ClaimInv, IntentsExplainMarket

LEMMA QuietCore ==
    ASSUME CoreInv, QuietStep
    PROVE  CoreInv' /\ OpenIntents' = OpenIntents
BY CoreClaims, QuietClaims
   DEF CoreInv, ClaimInv, SettledMarketIsVersioned, QuietStep

\* A claim does,
LEMMA ClaimingClaims ==
    ASSUME ClaimInv, NEW i, ClaimingStep(i)
    PROVE  ClaimInv'
<1>1. OneOpenIntent' /\ VersionAttributed'
  BY DEF ClaimInv, OneOpenIntent, VersionAttributed, ClaimingStep
<1>2. \A j \in Id : lastEvent'[j].kind \in IntentKind => j = i
  BY DEF ClaimingStep, OpenIntents
<1>3. IntentsExplainMarket'
  BY <1>2 DEF IntentsExplainMarket, ClaimingStep, IntentKind
<1>. QED
  BY <1>1, <1>3 DEF ClaimInv

LEMMA ClaimingCore ==
    ASSUME CoreInv, NEW i, ClaimingStep(i)
    PROVE  CoreInv'
BY CoreClaims, ClaimingClaims
   DEF CoreInv, ClaimInv, SettledMarketIsVersioned, ClaimingStep

\* so does a new version,
LEMMA AttributingCore ==
    ASSUME NEW i, AttributingStep(i)
    PROVE  CoreInv'
BY DEF CoreInv, OneOpenIntent, SettledMarketIsVersioned, VersionAttributed,
       AttributingStep, IntentsExplainMarket, OpenIntents, IntentKind

\* a withdrawal,
LEMMA AbandoningCore ==
    ASSUME CoreInv, AbandoningStep
    PROVE  CoreInv'
BY DEF CoreInv, OneOpenIntent, SettledMarketIsVersioned, VersionAttributed,
       AbandoningStep, IntentsExplainMarket, OpenIntents, IntentKind

\* The claimed rows of an open intent change the market.
LEMMA ClaimedChange ==
    ASSUME TypeInv, ClaimInv, NEW i \in OpenIntents
    PROVE  LET c == lastEvent[i].claim
               h == Write(content, i.batch, c.sessions)
           IN  /\ h # content
               /\ lastEvent[i].kind = "REBASE_INTENT" => c.pre = content /\ c.post = h
               /\ market \in {content, h}
               /\ i \in Id /\ i.batch \in Batch
<1>1. i \in Id /\ i.batch \in Batch /\ content \in History
  BY DEF OpenIntents, Id, TypeInv, TypeOK, LogTypeOK
<1>2. CASE lastEvent[i].kind = "INTENT"
  BY <1>1, <1>2, AppendFacts DEF ClaimInv, IntentsExplainMarket, AppendClaimed
<1>3. CASE lastEvent[i].kind = "REBASE_INTENT"
  BY <1>1, <1>3 DEF ClaimInv, IntentsExplainMarket, RewriteClaimed, IsRewrite
<1>. QED
  BY <1>2, <1>3 DEF OpenIntents, IntentKind

\* and the commit of the claimed rows.
LEMMA WritingCore ==
    ASSUME TypeInv, TypeInv', CoreInv, NEW i, WritingStep(i)
    PROVE  CoreInv'
<1>. USE CoreClaims
<1>1. /\ UNCHANGED logVars /\ OpenIntents' = OpenIntents /\ i \in OpenIntents
      /\ UNCHANGED <<lastEvent, content, owner, baseline, resolution>>
  BY DEF WritingStep, logVars, OpenIntents
<1>2. OneOpenIntent' /\ SettledMarketIsVersioned' /\ VersionAttributed'
  BY <1>1 DEF CoreInv, OneOpenIntent, SettledMarketIsVersioned, VersionAttributed
<1>3. \A j \in Id : lastEvent'[j].kind \in IntentKind => j = i
  BY <1>1 DEF CoreInv, OneOpenIntent, OpenIntents
<1>4. lastEvent[i].kind = "INTENT" => AppendClaimed(i)'
  BY <1>1, <1>3 DEF CoreInv, IntentsExplainMarket, AppendClaimed, WritingStep, OpenIntents
<1>5. lastEvent[i].kind = "REBASE_INTENT" => RewriteClaimed(i)'
  BY <1>1, ClaimedChange
     DEF CoreInv, IntentsExplainMarket, RewriteClaimed, IsRewrite, WritingStep,
         OpenIntents, Resolved
<1>. QED
  BY <1>1, <1>2, <1>3, <1>4, <1>5 DEF CoreInv, IntentsExplainMarket, IntentKind

-----------------------------------------------------------------------------
(* What a step means for a process it does not move *)

Stays(q) == q \in Proc /\ job'[q] = job[q] /\ JobConsistent(q)

ConstrainedPhase == {"comparing", "decided", "claimed", "committed", "rebase_planned",
                     "rebase_claimed", "rebase_committed"}

\* A phase without obligations is consistent.
LEMMA FreeJob ==
    ASSUME NEW q \in Proc, job'[q].phase \notin ConstrainedPhase
    PROVE  JobConsistent(q)'
BY DEF JobConsistent, ConstrainedPhase

\* What a process relies on survives a quiet step.
LEMMA QuietJob ==
    ASSUME TypeInv, TypeInv', CoreInv, QuietStep, NEW q, Stays(q)
    PROVE  JobConsistent(q)'
<1>1. job[q].phase \in ConstrainedPhase => job[q].id \in Id
  BY DEF Stays, ConstrainedPhase, TypeInv, JobsIdentified
<1>2. OpenIntents' = OpenIntents
  BY QuietCore
<1>3. job[q].phase \in ConstrainedPhase =>
        \/ lastEvent'[job[q].id] = lastEvent[job[q].id]
        \/ /\ lastEvent[job[q].id].kind \notin IntentKind
           /\ lastEvent'[job[q].id].kind \notin IntentKind
  BY <1>1 DEF QuietStep
<1>4. UNCHANGED <<market, content>> /\ receipt \subseteq receipt'
  BY DEF QuietStep
<1>5. CASE job[q].phase \in ConstrainedPhase
  BY <1>1, <1>2, <1>3, <1>4, <1>5
     DEF Stays, JobConsistent, ConstrainedPhase, IsAppend, Claims, IsRewrite,
         IntentKind
<1>. QED
  BY <1>5, FreeJob DEF Stays

\* A claim needs a settled market, so no other process is inside its section
\* and every change committed before has been recorded.
LEMMA ClaimingJob ==
    ASSUME TypeInv, TypeInv', ControlInv, NEW i, ClaimingStep(i), NEW q, Stays(q),
           job[q].phase \notin LockedPhase
    PROVE  JobConsistent(q)'
<1>1. job[q].phase \in ConstrainedPhase =>
        job[q].id \in Id /\ lastEvent[job[q].id].kind \notin IntentKind
  BY DEF Stays, ConstrainedPhase, TypeInv, JobsIdentified, ClaimingStep, OpenIntents
<1>2. job[q].ticket < ticket /\ job[q].ticket \in Nat /\ ticket \in Nat
  BY DEF ControlInv, TicketsIssued, Stays, TypeInv, TypeOK, StoreTypeOK, LogTypeOK, Job
<1>3. job[q].ticket # ticket
  BY <1>2
<1>4. CASE job[q].phase = "committed"
  BY <1>1, <1>4 DEF Stays, JobConsistent, ConstrainedPhase, Claims, IntentKind,
                    ClaimingStep
<1>5. CASE job[q].phase = "rebase_committed"
  <2>1. lastEvent'[job[q].id].kind = "REBASE_INTENT" => lastEvent'[job[q].id].ticket = ticket
    BY <1>1, <1>5 DEF ConstrainedPhase, ClaimingStep, OpenIntents, IntentKind
  <2>. QED
    BY <2>1, <1>3, <1>5 DEF Stays, JobConsistent
<1>. QED
  BY <1>4, <1>5, FreeJob DEF Stays, ConstrainedPhase, LockedPhase

\* A commit is made under the lock; what others committed is recorded.
LEMMA WritingJob ==
    ASSUME TypeInv, CoreInv, NEW i, WritingStep(i), NEW q, Stays(q),
           job[q].phase \notin LockedPhase
    PROVE  JobConsistent(q)'
<1>. USE CoreClaims
<1>1. \A j \in Id : lastEvent[j].kind \in IntentKind => j = i
  BY DEF CoreInv, OneOpenIntent, WritingStep, OpenIntents
<1>2. job[q].phase \in ConstrainedPhase => job[q].id \in Id
  BY DEF Stays, ConstrainedPhase, TypeInv, JobsIdentified
<1>3. market # Write(content, i.batch, lastEvent[i].claim.sessions)
      /\ i \in OpenIntents /\ UNCHANGED logVars
  BY ClaimedChange DEF WritingStep
<1>4. lastEvent[i].kind = "REBASE_INTENT" => lastEvent[i].claim.post # market
  BY <1>3, ClaimedChange
<1>5. CASE job[q].phase = "committed"
  BY <1>1, <1>2, <1>3, <1>5
     DEF Stays, JobConsistent, ConstrainedPhase, Claims, IntentKind, logVars
<1>6. CASE job[q].phase = "rebase_committed"
  BY <1>1, <1>2, <1>3, <1>4, <1>6
     DEF Stays, JobConsistent, ConstrainedPhase, IntentKind, logVars
<1>. QED
  BY <1>5, <1>6, FreeJob DEF Stays, ConstrainedPhase, LockedPhase

\* A version is made only while no process is inside its section with a
\* settled or merely claimed change.
LEMMA AttributingJob ==
    ASSUME TypeInv, CoreInv, NEW i, AttributingStep(i), NEW q, Stays(q)
    PROVE  JobConsistent(q)'
<1>1. \A j \in Id : lastEvent[j].kind \in IntentKind => j = i
  BY DEF CoreInv, OneOpenIntent, AttributingStep, OpenIntents
<1>2. \A j \in Id : lastEvent'[j].kind \notin IntentKind
  BY DEF AttributingStep, OpenIntents
<1>3. job[q].phase \in ConstrainedPhase => job[q].id \in Id
  BY DEF Stays, ConstrainedPhase, TypeInv, JobsIdentified
<1>4. OpenIntents # {} /\ market # content /\ receipt' = receipt \cup {i}
  BY DEF AttributingStep
<1>5. job[q].phase \notin {"comparing", "decided", "claimed", "rebase_planned",
                           "rebase_claimed"}
  BY <1>4 DEF Stays, JobConsistent
<1>6. CASE job[q].phase = "committed"
  BY <1>1, <1>3, <1>4, <1>6
     DEF Stays, JobConsistent, ConstrainedPhase, Claims, IntentKind
<1>7. CASE job[q].phase = "rebase_committed"
  BY <1>2, <1>3, <1>7 DEF Stays, JobConsistent, ConstrainedPhase, IntentKind
<1>. QED
  BY <1>5, <1>6, <1>7, FreeJob DEF Stays, ConstrainedPhase

\* A withdrawn claim is not the claim of a committed change.
LEMMA AbandoningJob ==
    ASSUME TypeInv, CoreInv, AbandoningStep, NEW q, Stays(q),
           job[q].phase \notin LockedPhase
    PROVE  JobConsistent(q)'
<1>. USE CoreClaims
<1>1. job[q].phase \in ConstrainedPhase => job[q].id \in Id
  BY DEF Stays, ConstrainedPhase, TypeInv, JobsIdentified
<1>2. \A j \in Id : lastEvent'[j].kind \notin IntentKind
  BY DEF AbandoningStep, OpenIntents
<1>3. CASE job[q].phase = "committed"
  <2>1. ASSUME Claims(job[q].id, job[q].final)
        PROVE  Write(content, job[q].id.batch, job[q].final.sessions) # market
    BY <1>1, <1>3, <2>1, ClaimedChange
       DEF Claims, OpenIntents, IntentKind, ConstrainedPhase, AbandoningStep
  <2>. QED
    BY <2>1, <1>3 DEF Stays, JobConsistent, AbandoningStep
<1>4. CASE job[q].phase = "rebase_committed"
  BY <1>1, <1>2, <1>4 DEF Stays, JobConsistent, ConstrainedPhase, IntentKind
<1>. QED
  BY <1>3, <1>4, FreeJob DEF Stays, ConstrainedPhase, LockedPhase

-----------------------------------------------------------------------------
(* Which kind of step a transaction of the log is *)

\* A step that touches neither the log nor the market is quiet.
LEMMA QuietNoLog ==
    ASSUME ClaimInv, UNCHANGED <<logVars, market>>
    PROVE  QuietStep
BY DEF ClaimInv, IntentsExplainMarket, RewriteClaimed, QuietStep, logVars, OpenRebases,
       Resolved

\* Persisting an observation is quiet.
LEMMA QuietPersist ==
    ASSUME TypeInv, ClaimInv, NEW i \in Id, PersistObservation(i), UNCHANGED market
    PROVE  QuietStep
<1>1. \A j \in Id : \/ lastEvent'[j] = lastEvent[j]
                    \/ lastEvent[j].kind = "NONE" /\ lastEvent'[j].kind = "OBSERVED"
  BY DEF PersistObservation, SetEvent, TypeInv, TypeOK, LogTypeOK
<1>2. UNCHANGED <<content, version, owner, baseline, receipt, resolution>>
  BY DEF PersistObservation, UnchangedApplication
<1>. QED
  BY <1>1, <1>2 DEF ClaimInv, IntentsExplainMarket, RewriteClaimed, QuietStep,
                    IntentKind, OpenRebases, Resolved

\* With no intent open, what is logged of another kind is quiet.
LEMMA QuietLogged ==
    ASSUME TypeInv, NEW i \in Id, OpenIntents = {}, UNCHANGED market,
           \/ RecordDecision(i)
           \/ SupersedeOthers(i)
           \/ \E r, S, w : RecordBlock(i, r, S, w)
           \/ \E f : f.sessions = {} /\ RecordApplication(i, f)
    PROVE  QuietStep
<1>1. \A j \in Id : lastEvent[j].kind \notin IntentKind
  BY DEF OpenIntents
<1>2. OpenRebases = {}
  BY <1>1 DEF OpenRebases, IntentKind
<1>3. lastEvent \in [Id -> Event] /\ owner \in [Session -> Id \cup {NoOwner}]
  BY DEF TypeInv, TypeOK, LogTypeOK
<1>4. CASE RecordDecision(i)
  BY <1>1, <1>2, <1>3, <1>4
     DEF RecordDecision, SetEvent, UnchangedApplication, QuietStep, IntentKind
<1>5. CASE SupersedeOthers(i)
  <2>1. \A j \in Id : lastEvent'[j] = lastEvent[j] \/ lastEvent'[j].kind = "SUPERSEDED"
    BY <1>5 DEF SupersedeOthers, NoEvent
  <2>. QED
    BY <2>1, <1>1, <1>2, <1>5
       DEF SupersedeOthers, UnchangedApplication, QuietStep, IntentKind
<1>6. CASE \E r, S, w : RecordBlock(i, r, S, w)
  <2>1. \A j \in Id : lastEvent'[j] = lastEvent[j] \/ lastEvent'[j].kind = "BLOCKED"
    BY <1>3, <1>6 DEF RecordBlock, SetEvent
  <2>. QED
    BY <2>1, <1>1, <1>2, <1>6
       DEF RecordBlock, UnchangedApplication, QuietStep, IntentKind
<1>7. CASE \E f : f.sessions = {} /\ RecordApplication(i, f)
  <2>1. PICK f : f.sessions = {} /\ RecordApplication(i, f)
    BY <1>7
  <2>2. CASE Finalizes(i, f)
    <3>1. \A j \in Id : lastEvent'[j] = lastEvent[j] \/ lastEvent'[j].kind = "APPLIED"
      BY <1>3, <2>1, <2>2 DEF RecordApplication, SetEvent
    <3>2. owner' = owner
      BY <1>3, <2>1, <2>2 DEF RecordApplication
    <3>. QED
      BY <3>1, <3>2, <1>1, <1>2, <2>1, <2>2 DEF RecordApplication, QuietStep, IntentKind
  <2>3. CASE ~Finalizes(i, f)
    BY <1>1, <1>2, <2>1, <2>3 DEF RecordApplication, QuietStep, logVars
  <2>. QED
    BY <2>2, <2>3
<1>. QED
  BY <1>4, <1>5, <1>6, <1>7

\* An intent alone in being open, and closed, leaves none open.
LEMMA LastIntentClosed ==
    ASSUME TypeInv, ClaimInv, NEW i \in OpenIntents, NEW kind, kind \notin IntentKind,
           NEW t, NEW c, SetEvent(i, kind, t, c)
    PROVE  OpenIntents' = {}
<1>1. \A j \in Id : lastEvent[j].kind \in IntentKind => j = i
  BY DEF ClaimInv, OneOpenIntent, OpenIntents
<1>2. lastEvent' = [lastEvent EXCEPT ![i] = [kind |-> kind, ticket |-> t, claim |-> c]]
      /\ lastEvent \in [Id -> Event] /\ i \in Id
  BY DEF SetEvent, TypeInv, TypeOK, LogTypeOK, OpenIntents
<1>3. \A j \in Id : lastEvent'[j].kind \notin IntentKind
  BY <1>1, <1>2
<1>. QED
  BY <1>3 DEF OpenIntents

\* Recording a committed append makes it the next version.
LEMMA AppendAttributed ==
    ASSUME TypeInv, ClaimInv, NEW i \in OpenIntents, NEW f,
           lastEvent[i].kind = "INTENT", f.sessions = lastEvent[i].claim.sessions,
           market = Write(content, i.batch, f.sessions), f.content = market,
           Finalizes(i, f), RecordApplication(i, f), UNCHANGED market
    PROVE  AttributingStep(i)
<1>. DEFINE S == f.sessions
<1>1. i \in Id /\ i.batch \in Batch /\ content \in History
      /\ owner \in [Session -> Id \cup {NoOwner}] /\ i # NoOwner
  BY NoOwnerAssumption DEF OpenIntents, Id, TypeInv, TypeOK, LogTypeOK
<1>2. S # {} /\ S \subseteq NewSessions(content, i.batch)
  BY <1>1 DEF ClaimInv, IntentsExplainMarket, AppendClaimed
<1>3. market # content /\ Stored(market) = Stored(content) \cup S
  BY <1>1, <1>2, AppendFacts
<1>4. /\ content' = market /\ version' = version + 1 /\ baseline' = baseline
      /\ receipt' = receipt \cup {i} /\ SetEvent(i, "APPLIED", 0, NoClaim)
      /\ owner' = [s \in Session |-> IF s \in S THEN i ELSE owner[s]]
  BY <1>2 DEF RecordApplication
<1>5. OpenIntents' = {}
  BY <1>4, LastIntentClosed DEF IntentKind
<1>6. Stored(content') = Stored(content) \cup S /\ Stored(content) \subseteq Session
      /\ S \subseteq Session
  BY <1>2, <1>3, <1>4 DEF Stored, NewSessions
<1>7. VersionAttributed'
  BY <1>1, <1>4, <1>6 DEF ClaimInv, VersionAttributed, Within
<1>. QED
  BY <1>3, <1>4, <1>5, <1>7 DEF AttributingStep

\* Recording a committed rewrite makes it the next version.
LEMMA RebaseAttributed ==
    ASSUME TypeInv, ClaimInv, NEW i \in OpenIntents, NEW t,
           lastEvent[i].kind = "REBASE_INTENT", market = lastEvent[i].claim.post,
           Rebases(i, lastEvent[i].claim, t), RecordRebase(i, lastEvent[i].claim, t),
           UNCHANGED market
    PROVE  AttributingStep(i)
<1>. DEFINE c == lastEvent[i].claim
<1>1. i \in Id /\ IsRewrite(c, i.batch)
  BY DEF OpenIntents, ClaimInv, IntentsExplainMarket, RewriteClaimed
<1>2. market # content /\ Stored(market) = Stored(content)
  BY <1>1, RewriteFacts DEF IsRewrite
<1>3. /\ content' = market /\ version' = version + 1 /\ UNCHANGED <<baseline, owner>>
      /\ receipt' = receipt \cup {i} /\ SetEvent(i, "APPLIED", 0, NoClaim)
  BY DEF RecordRebase
<1>4. OpenIntents' = {}
  BY <1>3, LastIntentClosed DEF IntentKind
<1>5. VersionAttributed'
  BY <1>2, <1>3 DEF ClaimInv, VersionAttributed, Within, Stored
<1>. QED
  BY <1>2, <1>3, <1>4, <1>5 DEF AttributingStep

-----------------------------------------------------------------------------
(* Which kind of step every action is *)

\* Claims, writes and withdrawals are made under the market lock.
MarketAction(p) ==
    \/ QuietStep
    \/ \E i : AttributingStep(i)
    \/ /\ job[p].phase \in LockedPhase
       /\ AbandoningStep \/ \E i : ClaimingStep(i) \/ WritingStep(i)

OnlyMoves(p) == \A q \in Proc : q # p => job'[q] = job[q]

SafeAction(p) == MarketAction(p) /\ OnlyMoves(p) /\ JobConsistent(p)'

\* What moving a process means for it and for the others.
LEMMA Moved ==
    ASSUME TypeInv, NEW p \in Proc
    PROVE  /\ Finish(p) => OnlyMoves(p) /\ JobConsistent(p)'
           /\ \A ph : Goto(p, ph) => OnlyMoves(p) /\ job'[p].phase = ph
           /\ \A ph : Goto(p, ph) /\ ph \notin ConstrainedPhase => JobConsistent(p)'
           /\ job' = job /\ job[p].phase \notin ConstrainedPhase =>
                OnlyMoves(p) /\ JobConsistent(p)'
<1>1. job \in [Proc -> Job] /\ job[p] \in Job
  BY DEF TypeInv, TypeOK, StoreTypeOK
<1>2. Finish(p) => OnlyMoves(p) /\ job'[p].phase = "idle"
  BY <1>1 DEF Finish, OnlyMoves, IdleJob
<1>3. ASSUME NEW ph, Goto(p, ph) PROVE OnlyMoves(p) /\ job'[p].phase = ph
  BY <1>1, <1>3 DEF Goto, OnlyMoves, Job
<1>. QED
  BY <1>2, <1>3, FreeJob DEF ConstrainedPhase, OnlyMoves

\* The rows of a claimed append tell recovery where the crash came.
LEMMA AppendSettled ==
    ASSUME TypeInv, ClaimInv, NEW i \in OpenIntents, lastEvent[i].kind = "INTENT"
    PROVE  /\ RowsPresent(i) =>
                market = Write(content, i.batch, lastEvent[i].claim.sessions)
           /\ RowsAbsent(i) => market = content
           /\ ~Ambiguous(i)
<1>. DEFINE S == lastEvent[i].claim.sessions
            h == Write(content, i.batch, S)
<1>1. i.batch \in Batch /\ content \in History
  BY DEF OpenIntents, Id, TypeInv, TypeOK, LogTypeOK
<1>2. S # {} /\ S \subseteq NewSessions(content, i.batch) /\ market \in {content, h}
  BY DEF OpenIntents, ClaimInv, IntentsExplainMarket, AppendClaimed
<1>3. \A s \in S : content[s] = NoRow /\ h[s] = i.batch.rows[s] /\ h[s] # NoRow
  BY <1>1, <1>2, AppendFacts
<1>. QED
  BY <1>2, <1>3 DEF RowsPresent, RowsAbsent, Ambiguous

\* Recovery of an append attributes it or withdraws it.
LEMMA SettleAppendAction ==
    ASSUME TypeInv, CoreInv, NEW p \in Proc, NEW i \in OpenIntents,
           SettleAppend(p, i), job[p].phase = "locked"
    PROVE  SafeAction(p)
<1>. USE CoreClaims
<1>. DEFINE f == Reconciled(lastEvent[i].claim.sessions, market)
<1>1. lastEvent[i].kind = "INTENT" /\ f.sessions = lastEvent[i].claim.sessions
      /\ f.content = market /\ i \in Id
  BY DEF SettleAppend, Reconciled, OpenIntents
<1>2. (UNCHANGED storeVars \/ FinishLocked(p)) /\ UNCHANGED market
  BY DEF SettleAppend, FinishLocked, storeVars
<1>3. OnlyMoves(p) /\ JobConsistent(p)'
  BY <1>2, Moved DEF FinishLocked, storeVars, ConstrainedPhase
<1>4. CASE RowsPresent(i) /\ RecordApplication(i, f)
  <2>1. CASE Finalizes(i, f)
    BY <1>1, <1>2, <1>3, <1>4, <2>1, AppendSettled, AppendAttributed
       DEF SafeAction, MarketAction
  <2>2. CASE ~Finalizes(i, f)
    <3>1. UNCHANGED <<logVars, market>>
      BY <1>2, <1>4, <2>2 DEF RecordApplication
    <3>. QED
      BY <1>3, <3>1, QuietNoLog DEF SafeAction, MarketAction
  <2>. QED
    BY <2>1, <2>2
<1>5. CASE RowsAbsent(i) /\ AbandonIntent(i)
  <2>1. OpenIntents' = {}
    BY <1>5, LastIntentClosed DEF AbandonIntent, IntentKind
  <2>2. AbandoningStep
    BY <1>1, <1>2, <1>5, <2>1, AppendSettled
       DEF AbandoningStep, AbandonIntent, UnchangedApplication
  <2>. QED
    BY <1>3, <2>2 DEF SafeAction, MarketAction, LockedPhase
<1>. QED
  BY <1>4, <1>5 DEF SettleAppend

\* Recovery of a rebase attributes it or withdraws it.
LEMMA SettleRebaseAction ==
    ASSUME TypeInv, CoreInv, NEW p \in Proc, NEW i \in OpenIntents,
           SettleRebase(p, i),
           job[p].phase \in {"locked", "rebase_locked", "recover_locked"}
    PROVE  SafeAction(p)
<1>. USE CoreClaims
<1>. DEFINE e == lastEvent[i]
<1>1. e.kind = "REBASE_INTENT" /\ i \in Id
  BY DEF SettleRebase, OpenIntents
<1>2. (UNCHANGED storeVars \/ FinishLocked(p)) /\ UNCHANGED market
  BY DEF SettleRebase, FinishLocked, storeVars
<1>3. OnlyMoves(p) /\ JobConsistent(p)'
  BY <1>2, Moved DEF FinishLocked, storeVars, ConstrainedPhase
<1>4. CASE market = e.claim.post /\ RecordRebase(i, e.claim, e.ticket)
  <2>1. CASE Rebases(i, e.claim, e.ticket)
    BY <1>1, <1>2, <1>3, <1>4, <2>1, RebaseAttributed DEF SafeAction, MarketAction
  <2>2. CASE ~Rebases(i, e.claim, e.ticket)
    <3>1. UNCHANGED <<logVars, market>>
      BY <1>2, <1>4, <2>2 DEF RecordRebase
    <3>. QED
      BY <1>3, <3>1, QuietNoLog DEF SafeAction, MarketAction
  <2>. QED
    BY <2>1, <2>2
<1>5. CASE market = e.claim.pre /\ AbandonIntent(i)
  <2>1. OpenIntents' = {}
    BY <1>5, LastIntentClosed DEF AbandonIntent, IntentKind
  <2>2. e.claim.pre = content
    BY <1>1, ClaimedChange
  <2>3. AbandoningStep
    BY <1>2, <1>5, <2>1, <2>2 DEF AbandoningStep, AbandonIntent, UnchangedApplication
  <2>. QED
    BY <1>3, <2>3 DEF SafeAction, MarketAction, LockedPhase
<1>. QED
  BY <1>4, <1>5 DEF SettleRebase

\* Every step of an admission is safe.
LEMMA AdmissionAction ==
    ASSUME MarketInv, Faultless, NEW p \in Proc, Admission(p)
    PROVE  SafeAction(p)
<1>. USE CoreClaims
<1>0. PICK i, f : i = job[p].id /\ f = job[p].final
  OBVIOUS
<1>. USE <1>0 DEF At
<1>. DEFINE b == i.batch
<1>1. TypeInv /\ CoreInv /\ JobConsistent(p)
  BY DEF MarketInv, CoreInv, JobsConsistent
<1>2. /\ job \in [Proc -> Job] /\ job[p] \in Job /\ content \in History
      /\ lastEvent \in [Id -> Event]
  BY <1>1 DEF TypeInv, TypeOK, StoreTypeOK, LogTypeOK
<1>3. job[p].phase \notin NoIdPhase => i \in Id /\ b \in Batch
  BY <1>1, IdentifiedJob DEF JobsOK, TypeInv, TypeOK, StoreTypeOK
<1>4. OpenIntents = {} => market = content
  BY <1>1 DEF CoreInv, SettledMarketIsVersioned
<1>10. CASE ReuseReceipt(p)
  BY <1>1, <1>10, QuietNoLog, Moved DEF ReuseReceipt, SafeAction, MarketAction
<1>11. CASE InvalidReceipt(p) \/ NoReceipt(p) \/ Lock(p)
  BY <1>1, <1>11, QuietNoLog, Moved
     DEF InvalidReceipt, NoReceipt, Lock, AcquireLock, SafeAction, MarketAction,
         ConstrainedPhase
<1>12. CASE BindReadmission(p)
  <2>1. OnlyMoves(p) /\ job'[p].phase = "readmitted"
    BY <1>2, <1>12 DEF BindReadmission, OnlyMoves, Job
  <2>. QED
    BY <1>1, <1>12, <2>1, QuietNoLog, FreeJob
       DEF BindReadmission, SafeAction, MarketAction, ConstrainedPhase
<1>13. CASE PersistReadmission(p)
  BY <1>1, <1>3, <1>13, QuietPersist, Moved
     DEF PersistReadmission, SafeAction, MarketAction, ConstrainedPhase, NoIdPhase
<1>14. CASE \E k \in OpenIntents : Settle(p, k)
  BY <1>1, <1>14, SettleAppendAction, SettleRebaseAction DEF Settle
<1>15. CASE \E k \in OpenIntents : BlockAmbiguous(p, k)
  <2>1. PICK k \in OpenIntents : Ambiguous(k)
    BY <1>15 DEF BlockAmbiguous
  <2>2. lastEvent[k].kind = "REBASE_INTENT"
    BY <1>1, <2>1, AppendSettled DEF Ambiguous
  <2>3. market \in {lastEvent[k].claim.pre, lastEvent[k].claim.post}
    BY <1>1, <2>2 DEF CoreInv, IntentsExplainMarket, RewriteClaimed, OpenIntents
  <2>. QED
    BY <2>1, <2>2, <2>3 DEF Ambiguous
<1>16. CASE Recovered(p)
  BY <1>1, <1>16, QuietNoLog, Moved DEF Recovered, FinishLocked, SafeAction, MarketAction
<1>17. CASE Supersede(p)
  <2>1. QuietStep
    BY <1>1, <1>3, <1>17, QuietLogged DEF Supersede, NoIdPhase
  <2>2. OpenIntents' = {}
    BY <2>1, <1>17 DEF QuietStep, OpenIntents, Supersede
  <2>3. OnlyMoves(p) /\ job'[p].phase = "comparing"
    BY <1>1, <1>17, Moved DEF Supersede
  <2>4. JobConsistent(p)'
    BY <2>2, <2>3 DEF JobConsistent
  <2>. QED
    BY <2>1, <2>3, <2>4 DEF SafeAction, MarketAction
<1>18. CASE BlockMismatch(p) \/ BlockRevision(p)
  <2>1. OpenIntents = {} /\ i \in Id /\ Finish(p) /\ UNCHANGED market
    BY <1>1, <1>3, <1>18
       DEF BlockMismatch, BlockRevision, FinishLocked, JobConsistent, NoIdPhase
  <2>2. QuietStep
    BY <1>1, <1>18, <2>1, QuietLogged DEF BlockMismatch, BlockRevision
  <2>. QED
    BY <1>1, <2>1, <2>2, Moved DEF SafeAction, MarketAction
<1>19. CASE Decide(p)
  <2>. DEFINE S == NewSessions(market, b)
  <2>0. PICK g : g = [sessions |-> S, content |-> Write(market, b, S),
                      decision |-> ticket, bound |-> version,
                      confirmed |-> Confirmed(market, b)]
    OBVIOUS
  <2>1. OpenIntents = {} /\ i \in Id /\ market = content
    BY <1>1, <1>3, <1>4, <1>19 DEF Decide, JobConsistent, NoIdPhase
  <2>2. QuietStep
    BY <1>1, <1>19, <2>1, QuietLogged DEF Decide
  <2>3. OnlyMoves(p) /\ job'[p].phase = "decided" /\ job'[p].final = g
        /\ job'[p].id = i
    BY <1>2, <1>19, <2>0 DEF Decide, OnlyMoves, Job
  <2>4. OpenIntents' = {} /\ content' = market
    BY <2>1, <2>2 DEF QuietStep, OpenIntents
  <2>5. IsAppend(g, b)'
    BY <2>0, <2>1, <2>4 DEF IsAppend
  <2>6. JobConsistent(p)'
    BY <2>3, <2>4, <2>5 DEF JobConsistent
  <2>. QED
    BY <2>2, <2>3, <2>6 DEF SafeAction, MarketAction
<1>20. CASE FinalizeNoOp(p)
  <2>1. OpenIntents = {} /\ i \in Id /\ Finish(p) /\ UNCHANGED market
    BY <1>1, <1>3, <1>20 DEF FinalizeNoOp, FinishLocked, JobConsistent, NoIdPhase
  <2>2. QuietStep
    BY <1>1, <1>20, <2>1, QuietLogged DEF FinalizeNoOp
  <2>. QED
    BY <1>1, <2>1, <2>2, Moved DEF SafeAction, MarketAction
<1>21. CASE ClaimSessions(p)
  <2>1. /\ OpenIntents = {} /\ i \in Id /\ market = content /\ IsAppend(f, b)
        /\ f.sessions # {} /\ job[p].phase = "decided"
    BY <1>1, <1>3, <1>4, <1>21 DEF ClaimSessions, JobConsistent, NoIdPhase
  <2>2. OnlyMoves(p) /\ job'[p].phase = "claimed" /\ job'[p].id = i
        /\ job'[p].final = f
    BY <1>2, <1>21 DEF ClaimSessions, Goto, OnlyMoves, Job
  <2>3. /\ lastEvent' = [lastEvent EXCEPT ![i] =
                [kind |-> "INTENT", ticket |-> ticket,
                 claim |-> [NoClaim EXCEPT !.sessions = f.sessions]]]
        /\ UNCHANGED <<market, content, version, receipt, owner, baseline>>
    BY <1>21 DEF ClaimSessions, RecordIntent, SetEvent, UnchangedApplication
  <2>4. lastEvent'[i].kind = "INTENT" /\ lastEvent'[i].claim.sessions = f.sessions
        /\ \A k \in Id : k # i => lastEvent'[k].kind \notin IntentKind
    BY <1>2, <2>1, <2>3 DEF NoClaim, OpenIntents
  <2>5. AppendClaimed(i)'
    BY <2>1, <2>3, <2>4 DEF AppendClaimed, IsAppend
  <2>6. OpenIntents' = {i}
    BY <2>1, <2>4 DEF OpenIntents, IntentKind
  <2>7. ClaimingStep(i)
    BY <2>1, <2>3, <2>4, <2>5, <2>6 DEF ClaimingStep
  <2>8. JobConsistent(p)'
    BY <2>1, <2>2, <2>3, <2>4 DEF JobConsistent, IsAppend, Claims
  <2>. QED
    BY <2>1, <2>2, <2>7, <2>8 DEF SafeAction, MarketAction, LockedPhase
<1>22. CASE AppendRows(p)
  <2>1. /\ i \in Id /\ Claims(i, f) /\ market = content /\ IsAppend(f, b)
        /\ f.sessions # {} /\ job[p].phase = "claimed"
    BY <1>1, <1>3, <1>22 DEF AppendRows, JobConsistent, NoIdPhase
  <2>2. i \in OpenIntents /\ lastEvent[i].claim.sessions = f.sessions
    BY <2>1 DEF OpenIntents, Claims, IntentKind
  <2>3. UNCHANGED logVars /\ market' = Write(market, b, f.sessions)
    BY <1>22 DEF AppendRows
  <2>4. WritingStep(i)
    BY <2>1, <2>2, <2>3 DEF WritingStep
  <2>5. OnlyMoves(p) /\ job'[p].phase = "committed" /\ job'[p].id = i
        /\ job'[p].final = f
    BY <1>2, <1>22 DEF AppendRows, Goto, OnlyMoves, Job
  <2>6. JobConsistent(p)'
    BY <2>1, <2>3, <2>5 DEF JobConsistent, IsAppend, Claims, logVars
  <2>. QED
    BY <2>1, <2>4, <2>5, <2>6 DEF SafeAction, MarketAction, LockedPhase
<1>23. CASE FinalizeAppend(p)
  <2>1. i \in Id /\ RecordApplication(i, f) /\ UNCHANGED market /\ job[p].phase = "committed"
    BY <1>3, <1>23 DEF FinalizeAppend, NoIdPhase
  <2>2. OnlyMoves(p) /\ JobConsistent(p)'
    BY <1>1, <1>23, Moved DEF FinalizeAppend
  <2>3. CASE Finalizes(i, f)
    <3>1. Claims(i, f) /\ market = f.content
          /\ f.content = Write(content, b, f.sessions)
      BY <1>1, <2>1, <2>3 DEF Finalizes, JobConsistent
    <3>2. AttributingStep(i)
      BY <1>1, <2>1, <2>3, <3>1, AppendAttributed DEF Claims, OpenIntents, IntentKind
    <3>. QED
      BY <2>2, <3>2 DEF SafeAction, MarketAction
  <2>4. CASE ~Finalizes(i, f)
    <3>1. UNCHANGED <<logVars, market>>
      BY <2>1, <2>4 DEF RecordApplication
    <3>. QED
      BY <1>1, <2>2, <3>1, QuietNoLog DEF SafeAction, MarketAction
  <2>. QED
    BY <2>3, <2>4
<1>24. CASE AppendFails(p) \/ AbandonAfterRollback(p)
  BY <1>24 DEF AppendFails, AbandonAfterRollback, Faultless, MarketInv, NothingFailed
<1>. QED
  BY <1>10, <1>11, <1>12, <1>13, <1>14, <1>15, <1>16, <1>17, <1>18, <1>19, <1>20,
     <1>21, <1>22, <1>23, <1>24 DEF Admission

\* Every step of a rebase or a recovery is safe.
LEMMA ReviewedAction ==
    ASSUME MarketInv, Faultless, NEW p \in Proc, Reviewed(p)
    PROVE  SafeAction(p)
<1>. USE CoreClaims
<1>0. PICK i, c, t : i = job[p].id /\ c = job[p].claim /\ t = job[p].ticket
  OBVIOUS
<1>. USE <1>0 DEF At
<1>. DEFINE b == i.batch
<1>1. TypeInv /\ CoreInv /\ JobConsistent(p)
  BY DEF MarketInv, CoreInv, JobsConsistent
<1>2. /\ job \in [Proc -> Job] /\ job[p] \in Job /\ content \in History
      /\ lastEvent \in [Id -> Event]
  BY <1>1 DEF TypeInv, TypeOK, StoreTypeOK, LogTypeOK
<1>3. job[p].phase \notin NoIdPhase => i \in Id /\ b \in Batch
  BY <1>1, IdentifiedJob DEF JobsOK, TypeInv, TypeOK, StoreTypeOK
<1>4. OpenIntents = {} => market = content
  BY <1>1 DEF CoreInv, SettledMarketIsVersioned
<1>10. CASE \E k \in block : PlanRebase(p, k)
  <2>1. PICK k \in block : PlanRebase(p, k)
    BY <1>10
  <2>. DEFINE S == Changed(market, b)
  <2>2. /\ k.id = i /\ OpenIntents = {} /\ market = content /\ S # {}
        /\ b \in Batch /\ job[p].phase = "rebase_locked"
    BY <1>3, <1>4, <2>1 DEF PlanRebase, Eligible, NoIdPhase
  <2>3. S \subseteq Stored(content) \cap Stored(b.rows) /\ Write(content, b, S) # content
    BY <1>2, <2>2, ChangedFacts
  <2>4. OnlyMoves(p) /\ job'[p].phase = "rebase_planned" /\ job'[p].id = i
        /\ job'[p].claim = RebaseClaim(k)
    BY <1>2, <2>1 DEF PlanRebase, OnlyMoves, Job
  <2>5. UNCHANGED <<logVars, market>> /\ content' = content /\ OpenIntents' = {}
    BY <2>1, <2>2 DEF PlanRebase, logVars, OpenIntents
  <2>6. IsRewrite(RebaseClaim(k), b)
    BY <2>2, <2>3 DEF IsRewrite, RebaseClaim
  <2>7. JobConsistent(p)'
    BY <2>4, <2>5, <2>6 DEF JobConsistent, IsRewrite
  <2>. QED
    BY <1>1, <2>4, <2>5, <2>7, QuietNoLog DEF SafeAction, MarketAction
<1>11. CASE LockRebase(p) \/ LockRecovery(p)
  BY <1>1, <1>11, QuietNoLog, Moved
     DEF LockRebase, LockRecovery, AcquireLock, SafeAction, MarketAction,
         ConstrainedPhase
<1>12. CASE RefuseRebase(p) \/ ClaimRefused(p) \/ FinishRecovery(p)
  BY <1>1, <1>12, QuietNoLog, Moved
     DEF RefuseRebase, ClaimRefused, FinishRecovery, FinishLocked, SafeAction,
         MarketAction
<1>13. CASE \E k \in OpenRebases : RebaseSettle(p, k) \/ RecoverySettle(p, k)
  BY <1>1, <1>13, SettleRebaseAction
     DEF RebaseSettle, RecoverySettle, OpenRebases, OpenIntents, IntentKind
<1>14. CASE ClaimBlock(p)
  <2>1. /\ OpenIntents = {} /\ i \in Id /\ market = content /\ IsRewrite(c, b)
        /\ job[p].phase = "rebase_planned" /\ c.block \notin Resolved
    BY <1>1, <1>3, <1>4, <1>14
       DEF ClaimBlock, JobConsistent, NoIdPhase, RecordRebaseIntent, MayClaimBlock
  <2>2. OnlyMoves(p) /\ job'[p].phase = "rebase_claimed" /\ job'[p].id = i
        /\ job'[p].claim = c /\ job'[p].ticket = ticket
    BY <1>2, <1>14 DEF ClaimBlock, OnlyMoves, Job
  <2>3. /\ lastEvent' = [lastEvent EXCEPT ![i] =
                [kind |-> "REBASE_INTENT", ticket |-> ticket, claim |-> c]]
        /\ UNCHANGED <<market, content, version, receipt, owner, baseline, resolution>>
    BY <1>14 DEF ClaimBlock, RecordRebaseIntent, SetEvent, UnchangedApplication
  <2>4. lastEvent'[i] = [kind |-> "REBASE_INTENT", ticket |-> ticket, claim |-> c]
        /\ \A k \in Id : k # i => lastEvent'[k].kind \notin IntentKind
    BY <1>2, <2>1, <2>3 DEF OpenIntents
  <2>5. RewriteClaimed(i)'
    BY <2>1, <2>3, <2>4 DEF RewriteClaimed, IsRewrite, Resolved
  <2>6. OpenIntents' = {i}
    BY <2>1, <2>4 DEF OpenIntents, IntentKind
  <2>7. ClaimingStep(i)
    BY <2>1, <2>3, <2>4, <2>5, <2>6 DEF ClaimingStep
  <2>8. JobConsistent(p)'
    BY <2>1, <2>2, <2>3, <2>4 DEF JobConsistent
  <2>. QED
    BY <2>1, <2>2, <2>7, <2>8 DEF SafeAction, MarketAction, LockedPhase
<1>15. CASE RewriteRows(p)
  <2>1. /\ i \in Id /\ market = content /\ job[p].phase = "rebase_claimed"
        /\ lastEvent[i] = [kind |-> "REBASE_INTENT", ticket |-> job[p].ticket,
                           claim |-> c]
    BY <1>1, <1>3, <1>15 DEF RewriteRows, JobConsistent, NoIdPhase
  <2>2. i \in OpenIntents /\ IsRewrite(c, b)
    BY <1>1, <2>1
       DEF OpenIntents, IntentKind, CoreInv, IntentsExplainMarket, RewriteClaimed
  <2>3. UNCHANGED logVars /\ market' = Write(market, b, c.sessions)
    BY <1>15 DEF RewriteRows
  <2>4. WritingStep(i)
    BY <2>1, <2>2, <2>3 DEF WritingStep
  <2>5. OnlyMoves(p) /\ job'[p].phase = "rebase_committed" /\ job'[p].id = i
        /\ job'[p].claim = c /\ job'[p].ticket = job[p].ticket
    BY <1>2, <1>15 DEF RewriteRows, Goto, OnlyMoves, Job
  <2>6. lastEvent'[i].claim = c /\ market' = c.post
    BY <2>1, <2>2, <2>3 DEF logVars, IsRewrite
  <2>7. JobConsistent(p)'
    BY <2>5, <2>6 DEF JobConsistent
  <2>. QED
    BY <2>1, <2>4, <2>5, <2>7 DEF SafeAction, MarketAction, LockedPhase
<1>16. CASE FinalizeRebase(p)
  <2>1. /\ i \in Id /\ RecordRebase(i, c, t) /\ UNCHANGED market
        /\ job[p].phase = "rebase_committed"
    BY <1>3, <1>16 DEF FinalizeRebase, NoIdPhase
  <2>2. OnlyMoves(p) /\ JobConsistent(p)'
    BY <1>1, <1>16, Moved DEF FinalizeRebase
  <2>3. CASE Rebases(i, c, t)
    <3>1. lastEvent[i].kind = "REBASE_INTENT" /\ lastEvent[i].claim = c
          /\ market = c.post
      BY <1>1, <2>1, <2>3 DEF Rebases, MayRebase, JobConsistent
    <3>2. AttributingStep(i)
      BY <1>1, <2>1, <2>3, <3>1, RebaseAttributed DEF OpenIntents, IntentKind
    <3>. QED
      BY <2>2, <3>2 DEF SafeAction, MarketAction
  <2>4. CASE ~Rebases(i, c, t)
    <3>1. UNCHANGED <<logVars, market>>
      BY <2>1, <2>4 DEF RecordRebase
    <3>. QED
      BY <1>1, <2>2, <3>1, QuietNoLog DEF SafeAction, MarketAction
  <2>. QED
    BY <2>3, <2>4
<1>17. CASE RewriteFails(p)
  BY <1>17 DEF RewriteFails, Faultless
<1>. QED
  BY <1>10, <1>11, <1>12, <1>13, <1>14, <1>15, <1>16, <1>17 DEF Reviewed

\* One safe step of p keeps the whole invariant.
LEMMA SafeStep ==
    ASSUME MarketInv, Faultless, TypeInv', ControlInv', NEW p \in Proc, SafeAction(p)
    PROVE  MarketInv'
<1>1. TypeInv /\ CoreInv /\ ControlInv /\ \A q \in Proc : JobConsistent(q)
  BY DEF MarketInv, CoreInv, ControlInv, JobsConsistent
<1>2. \A q \in Proc : q # p => Stays(q)
  BY <1>1 DEF SafeAction, OnlyMoves, Stays
<1>3. job[p].phase \in LockedPhase =>
        \A q \in Proc : q # p => job[q].phase \notin LockedPhase
  BY <1>1 DEF ControlInv, LockDiscipline
<1>4. CoreInv' /\ \A q \in Proc : q # p => JobConsistent(q)'
  <2>1. CASE QuietStep
    BY <1>1, <1>2, <2>1, QuietCore, QuietJob
  <2>2. CASE \E i : AttributingStep(i)
    BY <1>1, <1>2, <2>2, AttributingCore, AttributingJob
  <2>3. CASE job[p].phase \in LockedPhase /\ AbandoningStep
    BY <1>1, <1>2, <1>3, <2>3, AbandoningCore, AbandoningJob
  <2>4. ASSUME NEW i, job[p].phase \in LockedPhase, ClaimingStep(i)
        PROVE  CoreInv' /\ \A q \in Proc : q # p => JobConsistent(q)'
    BY <1>1, <1>2, <1>3, <2>4, ClaimingCore, ClaimingJob
  <2>5. ASSUME NEW i, job[p].phase \in LockedPhase, WritingStep(i)
        PROVE  CoreInv' /\ \A q \in Proc : q # p => JobConsistent(q)'
    BY <1>1, <1>2, <1>3, <2>5, WritingCore, WritingJob
  <2>. QED
    BY <2>1, <2>2, <2>3, <2>4, <2>5 DEF SafeAction, MarketAction
<1>5. JobConsistent(p)'
  BY DEF SafeAction
<1>. QED
  BY <1>4, <1>5 DEF MarketInv, CoreInv, ControlInv, JobsConsistent, Faultless

\* A step outside the processes' calls is quiet.
LEMMA QuietInv ==
    ASSUME MarketInv, Faultless, TypeInv', ControlInv', QuietStep, job' = job
    PROVE  MarketInv'
BY QuietCore, QuietJob
   DEF MarketInv, CoreInv, ControlInv, JobsConsistent, Stays, Faultless

\* A call starts by observing at most.
LEMMA CallIsQuiet ==
    ASSUME TypeInv, ClaimInv, NEW p \in Proc, Call(p)
    PROVE  /\ QuietStep /\ OnlyMoves(p)
           /\ job'[p].phase \in {"observed", "rebase_waiting", "recover_waiting"}
<1>1. QuietStep
  <2>1. CASE UNCHANGED logVars
    BY <2>1, QuietNoLog DEF Call, Observe, RequestRebase, RequestRecovery
  <2>2. CASE \E b \in Batch : Observe(p, b)
    <3>1. PICK b \in Batch : PersistObservation(Observation(b)) /\ UNCHANGED market
      BY <2>2 DEF Observe
    <3>2. Observation(b) \in Id
      BY MaxVersionAssumption DEF Observation, Id
    <3>. QED
      BY <3>1, <3>2, QuietPersist
  <2>. QED
    BY <2>1, <2>2 DEF Call, RequestRebase, RequestRecovery
<1>2. \E j : job' = [job EXCEPT ![p] = j]
             /\ j.phase \in {"observed", "rebase_waiting", "recover_waiting"}
  BY CallStarts DEF Start
<1>3. job \in [Proc -> Job]
  BY DEF TypeInv, TypeOK, StoreTypeOK
<1>. QED
  BY <1>1, <1>2, <1>3 DEF OnlyMoves

\* A review waits for an open rebase of its block.
LEMMA ReviewIsQuiet ==
    ASSUME TypeInv, ClaimInv, NEW k \in block, Review(k)
    PROVE  QuietStep /\ job' = job
<1>1. /\ k.ticket \notin PendingRebaseOwned
      /\ resolution' = resolution \cup {[block |-> k.ticket, kind |-> "REVIEWED"]}
      /\ UNCHANGED <<lastEvent, receipt, content, version, owner, baseline, storeVars>>
  BY DEF Review, ResolveBlock, UnchangedApplication
<1>2. \A x \in Resolved' : x \in Resolved \/ x = k.ticket
  <2>1. [block |-> k.ticket, kind |-> "REVIEWED"].block = k.ticket
    OBVIOUS
  <2>2. \A r \in resolution' : r \in resolution \/ r.block = k.ticket
    BY <1>1, <2>1
  <2>. QED
    BY <2>2 DEF Resolved
<1>3. \A i \in OpenRebases : lastEvent[i].claim.block \notin Resolved'
  BY <1>1, <1>2
     DEF OpenRebases, PendingRebaseOwned, ClaimInv, IntentsExplainMarket, RewriteClaimed
<1>. QED
  BY <1>1, <1>3 DEF QuietStep, storeVars

\* Every step is a safe step of one process, or quiet.
LEMMA EveryStep ==
    ASSUME MarketInv, Faultless, [Next]_vars
    PROVE  \/ \E p \in Proc : SafeAction(p)
           \/ QuietStep /\ job' = job
<1>. USE CoreClaims
<1>1. TypeInv /\ CoreInv
  BY DEF MarketInv, CoreInv
<1>2. \A p \in Proc : Progress(p) => SafeAction(p)
  BY AdmissionAction, ReviewedAction DEF Progress
<1>3. ASSUME NEW p \in Proc, Crash(p) PROVE SafeAction(p)
  BY <1>1, <1>3, QuietNoLog, Moved DEF Crash, SafeAction, MarketAction
<1>4. ASSUME NEW p \in Proc, Call(p) PROVE SafeAction(p)
  BY <1>1, <1>4, CallIsQuiet, FreeJob DEF SafeAction, MarketAction, ConstrainedPhase
<1>5. ASSUME NEW k \in block, Review(k) PROVE QuietStep /\ job' = job
  BY <1>1, <1>5, ReviewIsQuiet
<1>6. CASE UNCHANGED vars
  BY <1>1, <1>6, QuietNoLog DEF vars, storeVars
<1>. QED
  BY <1>2, <1>3, <1>4, <1>5, <1>6 DEF Next, EditOutOfBand, Faultless

\* MarketInv is inductive.
LEMMA InvNext ==
    ASSUME MarketInv, Faultless, [Next]_vars
    PROVE  MarketInv'
<1>1. TypeInv'
  BY NextType DEF MarketInv
<1>2. ControlInv'
  BY ControlNext DEF MarketInv, ControlInv
<1>. QED
  BY <1>1, <1>2, EveryStep, SafeStep, QuietInv

\* MarketInv holds initially.
LEMMA InvInit ==
    ASSUME Init
    PROVE  MarketInv
<1>1. PICK h \in InitialHistory : LogInit(h) /\ market = h
  BY DEF Init
<1>2. TypeInv
  BY InitType
<1>3. \A i \in Id : lastEvent[i].kind = "NONE"
  BY <1>1 DEF LogInit, NoEvent
<1>4. OpenIntents = {}
  BY <1>3 DEF OpenIntents, IntentKind
<1>5. OneOpenIntent /\ IntentsExplainMarket
  BY <1>3, <1>4 DEF OneOpenIntent, IntentsExplainMarket
<1>6. SettledMarketIsVersioned
  BY <1>1 DEF SettledMarketIsVersioned, LogInit
<1>7. VersionAttributed
  <2>1. SUFFICES ASSUME NEW s \in Stored(content) PROVE Within(baseline, s)
    BY DEF VersionAttributed
  <2>2. s \in Nat /\ s \in Stored(baseline)
    BY <1>1, SessionsAssumption DEF LogInit, Stored, Session
  <2>. QED
    BY <2>2 DEF Within
<1>8. \A p \in Proc : job[p].phase = "idle" /\ job[p].ticket = 0
  BY DEF Init, IdleJob
<1>9. ControlInv /\ NothingFailed
  BY <1>1, <1>8, ProcAssumption
     DEF ControlInv, LockDiscipline, NothingFailed, TicketsIssued, Init, LogInit,
         LockedPhase
<1>10. JobsConsistent
  BY <1>8 DEF JobsConsistent, JobConsistent
<1>. QED
  BY <1>2, <1>5, <1>6, <1>7, <1>9, <1>10 DEF MarketInv, ControlInv

-----------------------------------------------------------------------------
(* The theorems *)

\* Whatever the processes do and wherever they die, if no write fails and
\* nothing else writes market.db, the inductive invariant holds.
THEOREM MarketInvHolds ==
    ASSUME Faultless PROVE Spec => []MarketInv
<1>1. Init => MarketInv
  BY InvInit
<1>2. MarketInv /\ [Next]_vars => MarketInv'
  BY InvNext
<1>. QED
  BY <1>1, <1>2, PTL DEF Spec

\* With nothing in flight the market is what its latest version describes.
THEOREM SettledIsVersioned ==
    ASSUME Faultless PROVE Spec => []SettledMarketIsVersioned
<1>1. MarketInv => SettledMarketIsVersioned
  BY DEF MarketInv
<1>. QED
  BY <1>1, MarketInvHolds, PTL

\* Every stored row is baseline, owned by an applied observation, or claimed.
LEMMA RowsAttributed ==
    ASSUME MarketInv
    PROVE  NoUnattributedRow
<1>. USE CoreClaims
<1>1. TypeInv /\ CoreInv
  BY DEF MarketInv, CoreInv
<1>2. CASE market = content
  BY <1>1, <1>2 DEF CoreInv, VersionAttributed, NoUnattributedRow
<1>3. CASE market # content
  <2>1. PICK i \in OpenIntents : TRUE
    BY <1>1, <1>3 DEF CoreInv, SettledMarketIsVersioned
  <2>2. market = Write(content, i.batch, lastEvent[i].claim.sessions)
    BY <1>1, <1>3, ClaimedChange
  <2>3. \A s \in Stored(market) : s \in Stored(content) \/ s \in lastEvent[i].claim.sessions
    BY <2>2 DEF Stored, Write
  <2>. QED
    BY <1>1, <2>1, <2>3 DEF CoreInv, VersionAttributed, NoUnattributedRow
<1>. QED
  BY <1>2, <1>3

\* session_provenance never answers UNATTRIBUTED.
THEOREM EveryRowIsAttributed ==
    ASSUME Faultless PROVE Spec => []NoUnattributedRow
<1>1. MarketInv => NoUnattributedRow
  BY RowsAttributed
<1>. QED
  BY <1>1, MarketInvHolds, PTL

-----------------------------------------------------------------------------
(* The protocol implements VersionedHistory *)

\* Committing a claimed change either appends behind the settled market or
\* rewrites values of it, exactly as claimed.
LEMMA WritingChanges ==
    ASSUME TypeInv, CoreInv, NEW i, WritingStep(i)
    PROVE  LET S == lastEvent[i].claim.sessions
           IN  /\ market' \in History /\ market' # market
               /\ \/ /\ lastEvent[i].kind = "INTENT"
                     /\ \A s \in Session : market'[s] # market[s] =>
                            market[s] = NoRow /\ After(market, s)
                  \/ /\ lastEvent[i].kind = "REBASE_INTENT"
                     /\ Stored(market') = Stored(market)
                     /\ lastEvent[i].claim.block \notin Resolved
                     /\ \A s \in Session : market'[s] # market[s] =>
                            /\ s \in S /\ market[s] # NoRow
                            /\ market'[s] = i.batch.rows[s]
<1>. USE CoreClaims
<1>. DEFINE S == lastEvent[i].claim.sessions
            h == Write(content, i.batch, S)
<1>1. /\ i \in OpenIntents /\ i \in Id /\ i.batch \in Batch /\ content \in History
      /\ market = content /\ market' = h /\ h # content
  BY ClaimedChange DEF WritingStep, TypeInv, TypeOK, LogTypeOK
<1>2. h \in History
  BY <1>1, WriteType
<1>3. CASE lastEvent[i].kind = "INTENT"
  <2>1. S # {} /\ S \subseteq NewSessions(content, i.batch)
    BY <1>1, <1>3 DEF CoreInv, IntentsExplainMarket, AppendClaimed
  <2>2. \A s \in S : content[s] = NoRow /\ After(content, s)
    BY <1>1, <2>1, AppendFacts
  <2>3. \A s \in Session : h[s] # content[s] => s \in S
    BY DEF Write
  <2>. QED
    BY <1>1, <1>2, <1>3, <2>2, <2>3
<1>4. CASE lastEvent[i].kind = "REBASE_INTENT"
  <2>1. S \subseteq Stored(content) \cap Stored(i.batch.rows)
        /\ lastEvent[i].claim.block \notin Resolved
    BY <1>1, <1>4 DEF CoreInv, IntentsExplainMarket, RewriteClaimed, IsRewrite
  <2>2. /\ Stored(h) = Stored(content)
        /\ \A s \in Session : h[s] # content[s] =>
               s \in S /\ content[s] # NoRow /\ h[s] = i.batch.rows[s]
    BY <2>1, RewriteFacts
  <2>. QED
    BY <1>1, <1>2, <1>4, <2>1, <2>2
<1>. QED
  BY <1>1, <1>3, <1>4 DEF OpenIntents, IntentKind

\* The kinds of step, as seen from the market and its versions.
LEMMA StepKinds ==
    ASSUME MarketInv, Faultless, [Next]_vars
    PROVE  \/ UNCHANGED <<market, content, version>>
           \/ \E i : AttributingStep(i)
           \/ \E i : WritingStep(i)
BY EveryStep DEF SafeAction, MarketAction, QuietStep, ClaimingStep, AbandoningStep

\* Every step rewrites values only under review.
LEMMA StepRewritesOnlyByReview ==
    ASSUME MarketInv, Faultless, [Next]_vars
    PROVE  [\A s \in Session :
              market'[s] # market[s] =>
                IF market[s] = NoRow THEN After(market, s)
                ELSE \E i \in OpenRebases :
                        /\ s \in lastEvent[i].claim.sessions
                        /\ lastEvent[i].claim.block \notin Resolved
                        /\ market'[s] = i.batch.rows[s]]_market
<1>1. TypeInv /\ CoreInv
  BY DEF MarketInv, CoreInv
<1>2. CASE UNCHANGED market
  BY <1>2
<1>3. ASSUME NEW i, WritingStep(i), NEW s \in Session, market'[s] # market[s]
      PROVE  IF market[s] = NoRow THEN After(market, s)
             ELSE \E k \in OpenRebases :
                        /\ s \in lastEvent[k].claim.sessions
                        /\ lastEvent[k].claim.block \notin Resolved
                        /\ market'[s] = k.batch.rows[s]
  <2>1. i \in Id
    BY <1>3 DEF WritingStep, OpenIntents
  <2>2. CASE lastEvent[i].kind = "INTENT"
    BY <1>1, <1>3, <2>2, WritingChanges
  <2>3. CASE lastEvent[i].kind = "REBASE_INTENT"
    BY <1>1, <1>3, <2>1, <2>3, WritingChanges DEF OpenRebases
  <2>. QED
    BY <1>1, <1>3, <2>2, <2>3, WritingChanges
<1>. QED
  BY <1>2, <1>3, StepKinds DEF AttributingStep

\* Stored values change only to the reviewed values of an open rebase whose
\* block nobody resolved; everything else is an append.
THEOREM RewrittenOnlyByReview ==
    ASSUME Faultless PROVE Spec => HistoryRewrittenOnlyByReview
<1>1. MarketInv /\ [Next]_vars =>
        [\A s \in Session :
              market'[s] # market[s] =>
                IF market[s] = NoRow THEN After(market, s)
                ELSE \E i \in OpenRebases :
                        /\ s \in lastEvent[i].claim.sessions
                        /\ lastEvent[i].claim.block \notin Resolved
                        /\ market'[s] = i.batch.rows[s]]_market
  BY StepRewritesOnlyByReview
<1>. QED
  BY <1>1, MarketInvHolds, PTL DEF Spec, HistoryRewrittenOnlyByReview

-----------------------------------------------------------------------------
(***************************************************************************)
(* Why a finalization cannot fail: whatever the processes do and wherever  *)
(* they die, a committed change can be recorded by the process that made   *)
(* it or by the recovery of the next one, an applied receipt stays true    *)
(* until a review, and a block is lifted only by an observation that       *)
(* agrees with the market.  RecoveryInv is inductive relative to MarketInv,*)
(* when no write fails and nothing else writes market.db.                  *)
(***************************************************************************)

-----------------------------------------------------------------------------
(* Comparing a batch with a history that grows *)

\* What an admission leaves holds the whole batch.
LEMMA AdmittedIsWhole ==
    ASSUME NEW h \in History, NEW b \in Batch, Admitted(h, b)
    PROVE  Whole(Write(h, b, NewSessions(h, b)), b)
<1>1. b \in CandidateBatch
  BY BatchType
<1>2. CASE Stored(b.rows) # {} \/ Stored(h) # {}
  BY <1>1, <1>2, AdmittedAgrees DEF Agrees, Whole
<1>3. CASE Stored(b.rows) = {} /\ Stored(h) = {}
  <2>1. Stored(Write(h, b, NewSessions(h, b))) = {}
    BY <1>3 DEF Write, Stored, NewSessions
  <2>. QED
    BY <1>3, <2>1 DEF Whole, Matches, Missing, Window
<1>. QED
  BY <1>2, <1>3

\* A history cannot both hold a batch and disagree with it.
LEMMA WholeAgrees ==
    ASSUME NEW h, NEW b, Whole(h, b)
    PROVE  ~Disagrees(h, b)
BY DEF Whole, Disagrees, Matches

\* Rows behind the latest session leave old comparisons as they were.
LEMMA AppendKeepsComparisons ==
    ASSUME NEW h \in History, NEW b,
           NEW S, S \subseteq NewSessions(h, b), S # {}, NEW n \in Batch
    PROVE  /\ Matches(h, n) => Matches(Write(h, b, S), n)
           /\ Disagrees(h, n) => Disagrees(Write(h, b, S), n)
<1>. DEFINE w == Write(h, b, S)
<1>1. /\ \A s \in S : h[s] = NoRow /\ After(h, s)
      /\ Stored(w) = Stored(h) \cup S
  BY AppendFacts
<1>2. \A s \in Session : s \notin S => w[s] = h[s]
  BY DEF Write
<1>3. Matches(h, n) => Matches(w, n)
  BY <1>1, <1>2 DEF Matches, Stored
<1>4. ASSUME NEW s \in Session, Within(h, s) PROVE s \notin S /\ Within(w, s)
  <2>1. PICK t \in Stored(h) : s <= t
    BY <1>4 DEF Within
  <2>2. s \in Nat /\ t \in Nat
    BY <1>4, <2>1, SessionsAssumption DEF Session, Stored
  <2>3. ~(t < s)
    BY <2>1, <2>2
  <2>. QED
    BY <1>1, <2>1, <2>3 DEF After, Within
<1>5. ASSUME Disagrees(h, n) PROVE Disagrees(w, n)
  <2>1. CASE \E s \in Stored(n.rows) : Within(h, s) /\ h[s] # n.rows[s]
    BY <1>2, <1>4, <2>1 DEF Disagrees, Stored
  <2>2. CASE Missing(h, n) # {}
    <3>1. Missing(h, n) \subseteq Missing(w, n)
      BY <1>1, <1>2 DEF Missing, Window, Stored
    <3>. QED
      BY <2>2, <3>1 DEF Disagrees
  <2>. QED
    BY <1>5, <2>1, <2>2 DEF Disagrees
<1>. QED
  BY <1>3, <1>5

-----------------------------------------------------------------------------
(* What a step may do to the log, as recovery sees it *)

BasisKept == UNCHANGED <<content, version, owner, rebasedBlock, receipt>>

\* No claim, version, receipt or block is new, and nothing is accepted.  The
\* market may only gain, and an intent only lose, what is settled as content.
KeepingStep(p) ==
    /\ BasisKept /\ block' = block /\ ticket <= ticket'
    /\ resolution \subseteq resolution'
    /\ \A r \in resolution' \ resolution : r.kind # "ACCEPTED"
    /\ \A i \in Id : lastEvent'[i].kind \in IntentKind => lastEvent'[i] = lastEvent[i]
    /\ \/ market = content
       \/ \A i \in Id : lastEvent[i].kind \in IntentKind => lastEvent'[i] = lastEvent[i]
    /\ market' = market \/ (market = content /\ job[p].phase \in LockedPhase)

\* One more block, decided under the lock.
BlockingStep(p) ==
    /\ BasisKept /\ UNCHANGED <<market, resolution>>
    /\ job[p].phase \in LockedPhase /\ OpenIntents = {} /\ OpenIntents' = {}
    /\ \E k : /\ block' = block \cup {k}
              /\ k.ticket = ticket /\ ticket' = ticket + 1
              /\ k.result = "BLOCKED_REVISION_CHANGED" =>
                     k.id \notin receipt /\ Disagrees(content, k.id.batch)

\* One more claim, current and of an unapplied observation.
CurrentClaimStep(p, i) ==
    /\ BasisKept /\ UNCHANGED <<market, resolution, block>> /\ ticket <= ticket'
    /\ job[p].phase \in LockedPhase /\ OpenIntents = {} /\ OpenIntents' = {i}
    /\ i \notin receipt /\ ClaimsAreCurrent'

\* Observation i is applied: nothing was to be written, or its open intent is.
ApplyingStep(p, i) ==
    /\ UNCHANGED <<market, block, ticket>>
    /\ receipt' = receipt \cup {i} /\ rebasedBlock \subseteq rebasedBlock'
    /\ OpenIntents' = {}
    /\ LogReady'
    /\ \A r \in resolution' \ resolution :
          r.kind = "ACCEPTED" =>
            \E k \in block : /\ i \in receipt' \ receipt
                             /\ k.ticket = r.block /\ k.affected # {}
                             /\ \A s \in k.affected : market[s] = i.batch.rows[s]
    /\ \/ job[p].phase \in LockedPhase /\ OpenIntents = {} /\ version' = version
       \/ /\ i \in OpenIntents /\ market # content
          /\ lastEvent[i].kind = "REBASE_INTENT" =>
                lastEvent[i].claim.block \in rebasedBlock'

\* Each kind keeps what the log promises,
LEMMA KeepingLog ==
    ASSUME TypeInv, TypeInv', LogReady, NEW p, KeepingStep(p)
    PROVE  LogReady'
<1>1. /\ \A k \in block : k.ticket \in Nat
      /\ ticket \in Nat /\ ticket' \in Nat /\ ticket <= ticket'
  BY DEF TypeInv, TypeOK, LogTypeOK, Block, KeepingStep
<1>2. BlocksTicketed'
  BY <1>1 DEF LogReady, BlocksTicketed, KeepingStep
<1>3. Resolved \subseteq Resolved'
  BY DEF Resolved, KeepingStep
<1>4. Unresolved' \subseteq Unresolved /\ \A k : OpenRevision(k)' => OpenRevision(k)
  BY <1>3 DEF Unresolved, OpenRevision, KeepingStep
<1>5. \A i \in OpenIntents' : i \in OpenIntents /\ lastEvent'[i] = lastEvent[i]
  BY DEF KeepingStep, OpenIntents
<1>6. OwnedAreVersioned' /\ IntentsUnapplied' /\ ReceiptsMatch'
  BY <1>5 DEF LogReady, OwnedAreVersioned, IntentsUnapplied, ReceiptsMatch,
              KeepingStep, BasisKept, Stored
<1>7. RebasedAreResolved'
  BY <1>3 DEF LogReady, RebasedAreResolved, KeepingStep, BasisKept
<1>8. RevisionsDisagree' /\ AppliedHasNoOpenRevision'
  BY <1>4 DEF LogReady, RevisionsDisagree, AppliedHasNoOpenRevision, KeepingStep,
              BasisKept
<1>9. \A i, c : PlanIsCurrent(i, c) => PlanIsCurrent(i, c)'
  BY <1>4 DEF PlanIsCurrent, KeepingStep, BasisKept
<1>10. ClaimsAreCurrent'
  BY <1>5, <1>9 DEF LogReady, ClaimsAreCurrent, KeepingStep, BasisKept
<1>. QED
  BY <1>2, <1>6, <1>7, <1>8, <1>10 DEF LogReady

\* so does a new block,
LEMMA BlockingLog ==
    ASSUME TypeInv, LogReady, NEW p, BlockingStep(p)
    PROVE  LogReady'
<1>1. PICK k : /\ block' = block \cup {k}
               /\ k.ticket = ticket /\ ticket' = ticket + 1
               /\ k.result = "BLOCKED_REVISION_CHANGED" =>
                     k.id \notin receipt /\ Disagrees(content, k.id.batch)
  BY DEF BlockingStep
<1>2. /\ \A n \in block : n.ticket \in Nat /\ n.ticket < ticket
      /\ ticket \in Nat
  BY DEF TypeInv, TypeOK, LogTypeOK, Block, LogReady, BlocksTicketed
<1>3. BlocksTicketed'
  <2>1. \A n \in block' : n.ticket < ticket'
    BY <1>1, <1>2
  <2>2. \A n \in block : n.ticket # ticket
    BY <1>2
  <2>3. \A m, n \in block' : m.ticket = n.ticket => m = n
    BY <1>1, <2>2 DEF LogReady, BlocksTicketed
  <2>. QED
    BY <2>1, <2>3 DEF BlocksTicketed
<1>4. OwnedAreVersioned' /\ IntentsUnapplied' /\ ReceiptsMatch' /\ RebasedAreResolved'
  BY DEF LogReady, OwnedAreVersioned, IntentsUnapplied, ReceiptsMatch,
         RebasedAreResolved, BlockingStep, BasisKept, Stored, Resolved
<1>5. ClaimsAreCurrent'
  BY DEF ClaimsAreCurrent, BlockingStep
<1>6. Unresolved' \subseteq Unresolved \cup {k}
  BY <1>1 DEF Unresolved, Resolved, BlockingStep
<1>7. RevisionsDisagree' /\ AppliedHasNoOpenRevision'
  BY <1>1, <1>6 DEF LogReady, RevisionsDisagree, AppliedHasNoOpenRevision,
              OpenRevision, BlockingStep, BasisKept, Unresolved
<1>. QED
  BY <1>3, <1>4, <1>5, <1>7 DEF LogReady

\* and a new claim.
LEMMA ClaimLog ==
    ASSUME TypeInv, TypeInv', LogReady, NEW p, NEW i, CurrentClaimStep(p, i)
    PROVE  LogReady'
<1>1. /\ \A k \in block : k.ticket \in Nat
      /\ ticket \in Nat /\ ticket' \in Nat /\ ticket <= ticket'
  BY DEF TypeInv, TypeOK, LogTypeOK, Block, CurrentClaimStep
<1>2. BlocksTicketed'
  BY <1>1 DEF LogReady, BlocksTicketed, CurrentClaimStep
<1>3. OwnedAreVersioned' /\ IntentsUnapplied' /\ ReceiptsMatch' /\ RebasedAreResolved'
  BY DEF LogReady, OwnedAreVersioned, IntentsUnapplied, ReceiptsMatch,
         RebasedAreResolved, CurrentClaimStep, BasisKept, Stored, Resolved
<1>4. RevisionsDisagree' /\ AppliedHasNoOpenRevision'
  BY DEF LogReady, RevisionsDisagree, AppliedHasNoOpenRevision, OpenRevision,
         CurrentClaimStep, BasisKept, Unresolved, Resolved
<1>. QED
  BY <1>2, <1>3, <1>4 DEF LogReady, CurrentClaimStep

-----------------------------------------------------------------------------
(* What a step means for a process it does not move *)

Rests(q) == q \in Proc /\ job'[q] = job[q] /\ JobConsistent(q) /\ JobReady(q)

ReadyPhase == {"comparing", "decided", "claimed", "committed", "rebase_planned",
               "rebase_committed"}

\* A phase without obligations is ready.
LEMMA FreeReady ==
    ASSUME NEW q \in Proc, job'[q].phase \notin ReadyPhase
    PROVE  JobReady(q)'
BY DEF JobReady, ReadyPhase

\* A committed change is recorded, or it is the open one and in the market.
LEMMA CommittedOrRecorded ==
    ASSUME TypeInv, CoreInv, NEW q, Rests(q)
    PROVE  /\ job[q].phase = "committed" =>
                \/ job[q].id \in receipt
                \/ job[q].id \in OpenIntents /\ market # content
           /\ job[q].phase = "rebase_committed" =>
                \/ job[q].claim.block \in rebasedBlock
                \/ /\ job[q].id \in OpenIntents /\ market # content
                   /\ lastEvent[job[q].id] =
                        [kind |-> "REBASE_INTENT", ticket |-> job[q].ticket,
                         claim |-> job[q].claim]
<1>. USE CoreClaims
<1>1. job[q].phase \in {"committed", "rebase_committed"} => job[q].id \in Id
  BY DEF Rests, TypeInv, JobsIdentified
<1>2. ASSUME job[q].phase = "committed", job[q].id \notin receipt
      PROVE  job[q].id \in OpenIntents /\ market # content
  <2>1. /\ Claims(job[q].id, job[q].final) /\ market = job[q].final.content
        /\ job[q].final.content = Write(content, job[q].id.batch, job[q].final.sessions)
    BY <1>2 DEF Rests, JobConsistent
  <2>2. job[q].id \in OpenIntents
    BY <1>1, <1>2, <2>1 DEF Claims, OpenIntents, IntentKind
  <2>. QED
    BY <2>1, <2>2, ClaimedChange DEF Claims
<1>3. ASSUME job[q].phase = "rebase_committed", job[q].claim.block \notin rebasedBlock
      PROVE  /\ job[q].id \in OpenIntents /\ market # content
             /\ lastEvent[job[q].id] =
                    [kind |-> "REBASE_INTENT", ticket |-> job[q].ticket,
                     claim |-> job[q].claim]
  <2>1. lastEvent[job[q].id] = [kind |-> "REBASE_INTENT", ticket |-> job[q].ticket,
                                claim |-> job[q].claim]
    BY <1>3 DEF Rests, JobReady
  <2>2. job[q].id \in OpenIntents
    BY <1>1, <1>3, <2>1 DEF OpenIntents, IntentKind
  <2>3. market = job[q].claim.post
    BY <1>3, <2>1 DEF Rests, JobConsistent
  <2>. QED
    BY <2>1, <2>2, <2>3, ClaimedChange
<1>. QED
  BY <1>2, <1>3

\* What a process relies on survives a step that keeps,
LEMMA KeepingJob ==
    ASSUME TypeInv, CoreInv, NEW p, KeepingStep(p), NEW q, Rests(q),
           \/ market' = market
           \/ ~(job[p].phase \in LockedPhase /\ job[q].phase \in LockedPhase)
    PROVE  JobReady(q)'
<1>1. \A k : OpenRevision(k)' => OpenRevision(k)
  BY DEF Unresolved, Resolved, OpenRevision, KeepingStep
<1>2. \A i, c : PlanIsCurrent(i, c) => PlanIsCurrent(i, c)'
  BY <1>1 DEF PlanIsCurrent, KeepingStep, BasisKept
<1>3. CASE job[q].phase \in {"comparing", "rebase_planned"}
  BY <1>2, <1>3 DEF Rests, JobReady, KeepingStep, BasisKept
<1>4. CASE job[q].phase \in {"decided", "claimed"}
  <2>1. market' = market
    BY <1>4 DEF KeepingStep, LockedPhase
  <2>. QED
    BY <1>4, <2>1 DEF Rests, JobReady, DecisionIsCurrent, KeepingStep, BasisKept
<1>5. CASE job[q].phase = "committed"
  <2>1. CASE job[q].id \in receipt
    BY <1>5, <2>1 DEF Rests, JobReady, KeepingStep, BasisKept
  <2>2. CASE market # content
    BY <1>5, <2>2 DEF Rests, JobReady, DecisionIsCurrent, KeepingStep, BasisKept
  <2>. QED
    BY <1>5, <2>1, <2>2, CommittedOrRecorded
<1>6. CASE job[q].phase = "rebase_committed"
  <2>1. CASE job[q].claim.block \in rebasedBlock
    BY <1>6, <2>1 DEF Rests, JobReady, KeepingStep, BasisKept
  <2>2. CASE /\ job[q].id \in OpenIntents /\ market # content
             /\ lastEvent[job[q].id] =
                  [kind |-> "REBASE_INTENT", ticket |-> job[q].ticket,
                   claim |-> job[q].claim]
    BY <1>6, <2>2 DEF Rests, JobReady, KeepingStep, OpenIntents
  <2>. QED
    BY <1>6, <2>1, <2>2, CommittedOrRecorded
<1>. QED
  BY <1>3, <1>4, <1>5, <1>6, FreeReady DEF Rests, ReadyPhase

\* one that needs the lock and finds no intent open,
LEMMA SettledJob ==
    ASSUME TypeInv, CoreInv, OpenIntents = {}, receipt \subseteq receipt',
           UNCHANGED <<market, version>>, rebasedBlock \subseteq rebasedBlock',
           NEW q, Rests(q), job[q].phase \notin LockedPhase
    PROVE  JobReady(q)'
<1>1. CASE job[q].phase = "committed"
  BY <1>1, CommittedOrRecorded DEF Rests, JobReady
<1>2. CASE job[q].phase = "rebase_committed"
  BY <1>2, CommittedOrRecorded DEF Rests, JobReady
<1>. QED
  BY <1>1, <1>2, FreeReady DEF Rests, ReadyPhase, LockedPhase

\* and one that applies the open intent.
LEMMA AppliedJob ==
    ASSUME TypeInv, CoreInv, NEW i \in OpenIntents, market # content,
           receipt' = receipt \cup {i}, rebasedBlock \subseteq rebasedBlock',
           lastEvent[i].kind = "REBASE_INTENT" =>
                lastEvent[i].claim.block \in rebasedBlock',
           NEW q, Rests(q)
    PROVE  JobReady(q)'
<1>1. \A j \in OpenIntents : j = i
  BY DEF CoreInv, OneOpenIntent
<1>2. job[q].phase \notin {"comparing", "decided", "claimed", "rebase_planned"}
  BY DEF Rests, JobConsistent
<1>3. CASE job[q].phase = "committed"
  BY <1>1, <1>3, CommittedOrRecorded DEF Rests, JobReady
<1>4. CASE job[q].phase = "rebase_committed"
  BY <1>1, <1>4, CommittedOrRecorded DEF Rests, JobReady
<1>. QED
  BY <1>2, <1>3, <1>4, FreeReady DEF Rests, ReadyPhase

-----------------------------------------------------------------------------
(* Which applications are applying steps *)

\* What is logged as accepted agrees with the market, if the finalization
\* confirmed only sessions that do.
LEMMA AcceptedAgrees ==
    ASSUME NEW i, NEW f, Finalizes(i, f), RecordApplication(i, f),
           \A s \in f.confirmed : market[s] = i.batch.rows[s]
    PROVE  /\ resolution \subseteq resolution'
           /\ \A r \in resolution' \ resolution :
                r.kind = "ACCEPTED" =>
                  \E k \in block : /\ i \in receipt' \ receipt
                                   /\ k.ticket = r.block /\ k.affected # {}
                                   /\ \A s \in k.affected : market[s] = i.batch.rows[s]
<1>1. i \in receipt' \ receipt
  BY DEF Finalizes, RecordApplication
<1>2. resolution' = resolution \cup
        {[block |-> k.ticket, kind |-> "ACCEPTED"] : k \in Covered(f)}
  BY DEF RecordApplication
<1>3. \A r \in resolution' \ resolution : \E k \in Covered(f) : k.ticket = r.block
  BY <1>2
<1>4. \A k \in Covered(f) : k \in block /\ k.affected # {} /\ k.affected \subseteq f.confirmed
  BY DEF Covered, Unresolved
<1>5. ASSUME NEW r \in resolution' \ resolution
      PROVE  \E k \in block : /\ i \in receipt' \ receipt
                              /\ k.ticket = r.block /\ k.affected # {}
                              /\ \A s \in k.affected : market[s] = i.batch.rows[s]
  <2>1. PICK k \in Covered(f) : k.ticket = r.block
    BY <1>3, <1>5
  <2>. QED
    BY <1>1, <1>4, <2>1
<1>. QED
  BY <1>2, <1>5

\* Once observation i is whole in the new content, an application of it that
\* keeps what disagreed with the old content keeps the log's promises.
LEMMA AppliedLog ==
    ASSUME TypeInv, LogReady, NEW i,
           UNCHANGED <<block, ticket>>, receipt' = receipt \cup {i},
           OpenIntents' = {}, resolution \subseteq resolution',
           ~Disagrees(content', i.batch),
           RevisionsDisagree', OwnedAreVersioned', RebasedAreResolved', ReceiptsMatch'
    PROVE  LogReady'
<1>1. BlocksTicketed' /\ IntentsUnapplied' /\ ClaimsAreCurrent'
  BY DEF LogReady, BlocksTicketed, IntentsUnapplied, ClaimsAreCurrent
<1>2. AppliedHasNoOpenRevision'
  <2>1. SUFFICES ASSUME NEW k \in Unresolved', k.result = "BLOCKED_REVISION_CHANGED"
                 PROVE  k.id \notin receipt'
    BY DEF AppliedHasNoOpenRevision
  <2>2. k \in Unresolved /\ k \in block'
    BY <2>1 DEF Unresolved, Resolved
  <2>3. k.id \notin receipt
    BY <2>1, <2>2 DEF LogReady, AppliedHasNoOpenRevision
  <2>4. Disagrees(content', k.id.batch)
    BY <2>1, <2>2 DEF RevisionsDisagree, OpenRevision
  <2>. QED
    BY <2>3, <2>4
<1>. QED
  BY <1>1, <1>2 DEF LogReady

\* A decision without new sessions, finalized under the lock.
LEMMA NoOpApplies ==
    ASSUME TypeInv, CoreInv, LogReady, NEW p, NEW i \in Id, NEW f,
           job[p].phase \in LockedPhase, OpenIntents = {}, UNCHANGED market,
           f.sessions = {}, Whole(content, i.batch),
           \A s \in f.confirmed : market[s] = i.batch.rows[s],
           Finalizes(i, f), RecordApplication(i, f)
    PROVE  ApplyingStep(p, i)
<1>1. /\ UNCHANGED <<version, content, block, ticket, rebasedBlock>>
      /\ receipt' = receipt \cup {i} /\ SetEvent(i, "APPLIED", 0, NoClaim)
      /\ owner' = [s \in Session |-> IF s \in {} THEN i ELSE owner[s]]
  BY DEF RecordApplication
<1>2. lastEvent \in [Id -> Event] /\ owner \in [Session -> Id \cup {NoOwner}]
  BY DEF TypeInv, TypeOK, LogTypeOK
<1>3. owner' = owner
  BY <1>1, <1>2
<1>4. OpenIntents' = {}
  BY <1>1, <1>2 DEF SetEvent, OpenIntents, IntentKind
<1>5. Resolved \subseteq Resolved' /\ resolution \subseteq resolution'
  BY DEF RecordApplication, Resolved
<1>6. RevisionsDisagree' /\ OwnedAreVersioned' /\ RebasedAreResolved' /\ ReceiptsMatch'
  <2>1. \A k : OpenRevision(k)' => OpenRevision(k)
    BY <1>1, <1>5 DEF OpenRevision, Unresolved
  <2>2. RevisionsDisagree'
    BY <1>1, <2>1 DEF LogReady, RevisionsDisagree
  <2>3. OwnedAreVersioned' /\ RebasedAreResolved'
    BY <1>1, <1>3, <1>5 DEF LogReady, OwnedAreVersioned, RebasedAreResolved, Stored
  <2>4. ReceiptsMatch'
    BY <1>1 DEF LogReady, ReceiptsMatch, Whole
  <2>. QED
    BY <2>2, <2>3, <2>4
<1>7. LogReady'
  BY <1>1, <1>4, <1>5, <1>6, WholeAgrees, AppliedLog
<1>. QED
  BY <1>1, <1>4, <1>7, AcceptedAgrees DEF ApplyingStep

\* A committed append, finalized by its process or by recovery.
LEMMA AppendApplies ==
    ASSUME TypeInv, CoreInv, LogReady, NEW p, NEW i \in OpenIntents, NEW f,
           lastEvent[i].kind = "INTENT", f.sessions = lastEvent[i].claim.sessions,
           market = Write(content, i.batch, f.sessions), f.content = market,
           \A s \in f.confirmed : market[s] = i.batch.rows[s],
           Finalizes(i, f), RecordApplication(i, f), UNCHANGED market
    PROVE  ApplyingStep(p, i)
<1>. USE CoreClaims
<1>. DEFINE S == f.sessions
<1>1. i \in Id /\ i.batch \in Batch /\ content \in History
      /\ owner \in [Session -> Id \cup {NoOwner}]
  BY DEF OpenIntents, Id, TypeInv, TypeOK, LogTypeOK
<1>2. S # {} /\ S \subseteq NewSessions(content, i.batch)
  BY <1>1 DEF CoreInv, IntentsExplainMarket, AppendClaimed
<1>3. market # content /\ Stored(market) = Stored(content) \cup S
  BY <1>1, <1>2, AppendFacts
<1>4. /\ content' = market /\ UNCHANGED <<block, ticket, rebasedBlock>>
      /\ receipt' = receipt \cup {i} /\ SetEvent(i, "APPLIED", 0, NoClaim)
      /\ owner' = [s \in Session |-> IF s \in S THEN i ELSE owner[s]]
  BY <1>2 DEF RecordApplication
<1>5. OpenIntents' = {}
  BY <1>4, LastIntentClosed DEF IntentKind
<1>6. Resolved \subseteq Resolved' /\ resolution \subseteq resolution'
  BY DEF RecordApplication, Resolved
<1>7. Whole(market, i.batch)
  BY DEF LogReady, ClaimsAreCurrent
<1>8. \A n \in Batch : /\ Matches(content, n) => Matches(market, n)
                       /\ Disagrees(content, n) => Disagrees(market, n)
  BY <1>1, <1>2, AppendKeepsComparisons
<1>9. RevisionsDisagree'
  <2>1. SUFFICES ASSUME NEW k \in block, OpenRevision(k)'
                 PROVE  Disagrees(market, k.id.batch)
    BY <1>4 DEF RevisionsDisagree
  <2>2. OpenRevision(k) /\ k.id.batch \in Batch
    BY <1>4, <1>6, <2>1
       DEF OpenRevision, Unresolved, TypeInv, TypeOK, LogTypeOK, Block, Id
  <2>. QED
    BY <1>8, <2>1, <2>2 DEF LogReady, RevisionsDisagree
<1>10. OwnedAreVersioned'
  <2>1. \A s \in Session : owner'[s] = IF s \in S THEN i ELSE owner[s]
    BY <1>4
  <2>2. \A s \in Session : owner[s] # NoOwner => s \in Stored(content)
    BY DEF LogReady, OwnedAreVersioned
  <2>3. Stored(content') = Stored(content) \cup S
    BY <1>3, <1>4 DEF Stored
  <2>. QED
    BY <2>1, <2>2, <2>3 DEF OwnedAreVersioned
<1>11. RebasedAreResolved'
  BY <1>4, <1>6 DEF LogReady, RebasedAreResolved
<1>12. ReceiptsMatch'
  <2>1. receipt \subseteq Id
    BY DEF TypeInv, TypeOK, LogTypeOK
  <2>2. \A j \in receipt : j.batch \in Batch
    BY <2>1 DEF Id
  <2>. QED
    BY <1>4, <1>7, <1>8, <2>2 DEF LogReady, ReceiptsMatch, Whole
<1>13. LogReady'
  BY <1>4, <1>5, <1>6, <1>7, <1>9, <1>10, <1>11, <1>12, WholeAgrees, AppliedLog
<1>. QED
  BY <1>3, <1>4, <1>5, <1>13, AcceptedAgrees DEF ApplyingStep

\* A committed rewrite, finalized by its process or by recovery.
LEMMA RebaseApplies ==
    ASSUME TypeInv, CoreInv, LogReady, NEW p, NEW i \in OpenIntents, NEW t,
           lastEvent[i].kind = "REBASE_INTENT", market = lastEvent[i].claim.post,
           Rebases(i, lastEvent[i].claim, t), RecordRebase(i, lastEvent[i].claim, t),
           UNCHANGED market
    PROVE  ApplyingStep(p, i)
<1>. USE CoreClaims
<1>0. PICK c : c = lastEvent[i].claim
  OBVIOUS
<1>1. i \in Id /\ IsRewrite(c, i.batch) /\ PlanIsCurrent(i, c)
  BY <1>0 DEF OpenIntents, CoreInv, IntentsExplainMarket, RewriteClaimed, LogReady,
              ClaimsAreCurrent
<1>2. market # content /\ Stored(market) = Stored(content)
  BY <1>0, <1>1, RewriteFacts DEF IsRewrite
<1>3. /\ content' = market /\ UNCHANGED <<block, ticket, owner>>
      /\ receipt' = receipt \cup {i} /\ SetEvent(i, "APPLIED", 0, NoClaim)
      /\ rebasedBlock' = rebasedBlock \cup {c.block}
      /\ resolution' = resolution
            \cup {[block |-> c.block, kind |-> "REBASED"]}
            \cup {[block |-> o, kind |-> "SUPERSEDED_BY_REBASE"] :
                    o \in c.older \ Resolved}
  BY <1>0 DEF RecordRebase
<1>4. OpenIntents' = {}
  BY <1>3, LastIntentClosed DEF IntentKind
<1>5. Resolved' = Resolved \cup {c.block} \cup c.older
  <2>1. \A x : x \in Resolved' <=> \E r \in resolution' : r.block = x
    BY DEF Resolved
  <2>2. \A x : x \in Resolved <=> \E r \in resolution : r.block = x
    BY DEF Resolved
  <2>3. \A o : [block |-> o, kind |-> "SUPERSEDED_BY_REBASE"].block = o
               /\ [block |-> o, kind |-> "REBASED"].block = o
    OBVIOUS
  <2>4. ASSUME NEW x \in Resolved' PROVE x \in Resolved \cup {c.block} \cup c.older
    <3>1. PICK r \in resolution' : r.block = x
      BY <2>1, <2>4
    <3>2. \/ r \in resolution \/ r = [block |-> c.block, kind |-> "REBASED"]
          \/ \E o \in c.older : r = [block |-> o, kind |-> "SUPERSEDED_BY_REBASE"]
      BY <1>3, <3>1
    <3>. QED
      BY <2>2, <2>3, <3>1, <3>2
  <2>5. ASSUME NEW x \in Resolved \cup {c.block} \cup c.older PROVE x \in Resolved'
    <3>1. CASE x \in Resolved
      BY <1>3, <2>1, <2>2, <3>1
    <3>2. CASE x = c.block
      <4>1. [block |-> c.block, kind |-> "REBASED"] \in resolution'
        BY <1>3
      <4>. QED
        BY <2>1, <2>3, <3>2, <4>1
    <3>3. CASE x \in c.older /\ x \notin Resolved
      <4>1. [block |-> x, kind |-> "SUPERSEDED_BY_REBASE"] \in resolution'
        BY <1>3, <3>3
      <4>. QED
        BY <2>1, <2>3, <4>1
    <3>. QED
      BY <2>5, <3>1, <3>2, <3>3
  <2>. QED
    BY <2>4, <2>5
<1>6. RevisionsDisagree'
  <2>1. SUFFICES ASSUME NEW k \in block, OpenRevision(k)'
                 PROVE  Disagrees(market, k.id.batch)
    BY <1>3 DEF RevisionsDisagree
  <2>2. OpenRevision(k) /\ k.ticket # c.block /\ k.ticket \notin c.older
    BY <1>3, <1>5, <2>1 DEF OpenRevision, Unresolved
  <2>. QED
    BY <1>0, <1>1, <2>2 DEF PlanIsCurrent
<1>7. OwnedAreVersioned'
  BY <1>2, <1>3 DEF LogReady, OwnedAreVersioned, Stored
<1>8. RebasedAreResolved' /\ ReceiptsMatch'
  BY <1>3, <1>5 DEF LogReady, RebasedAreResolved, ReceiptsMatch
<1>9. ~Disagrees(content', i.batch)
  BY <1>0, <1>1, <1>3 DEF PlanIsCurrent
<1>10. resolution \subseteq resolution'
  BY <1>3
<1>11. LogReady'
  BY <1>3, <1>4, <1>6, <1>7, <1>8, <1>9, <1>10, AppliedLog
<1>12. \A r \in resolution' \ resolution : r.kind # "ACCEPTED"
  BY <1>3
<1>. QED
  BY <1>0, <1>2, <1>3, <1>4, <1>11, <1>12 DEF ApplyingStep

-----------------------------------------------------------------------------
(* Which kind of step every action is *)

RecoveryAction(p) ==
    /\ \/ KeepingStep(p) \/ BlockingStep(p)
       \/ \E i : CurrentClaimStep(p, i) \/ ApplyingStep(p, i)
    /\ OnlyMoves(p) /\ JobReady(p)'

\* A step that leaves the log alone keeps everything, and so do the
\* transactions that log nothing recovery looks at.
LEMMA KeepingFacts ==
    ASSUME TypeInv, NEW p, UNCHANGED market
    PROVE  /\ UNCHANGED logVars => KeepingStep(p)
           /\ \A i \in Id : PersistObservation(i) => KeepingStep(p)
           /\ \A i \in Id : OpenIntents = {} /\ RecordDecision(i) => KeepingStep(p)
           /\ \A i \in Id : OpenIntents = {} /\ SupersedeOthers(i) => KeepingStep(p)
           /\ \A i \in Id : market = content /\ AbandonIntent(i) => KeepingStep(p)
<1>1. ticket \in Nat /\ lastEvent \in [Id -> Event]
  BY DEF TypeInv, TypeOK, LogTypeOK
<1>2. CASE UNCHANGED logVars
  BY <1>1, <1>2 DEF logVars, KeepingStep, BasisKept
<1>3. ASSUME NEW i \in Id, PersistObservation(i) PROVE KeepingStep(p)
  <2>1. \A j \in Id : \/ lastEvent'[j] = lastEvent[j]
                      \/ lastEvent[j].kind = "NONE" /\ lastEvent'[j].kind = "OBSERVED"
    BY <1>1, <1>3 DEF PersistObservation, SetEvent
  <2>. QED
    BY <1>1, <1>3, <2>1
       DEF PersistObservation, UnchangedApplication, KeepingStep, BasisKept, IntentKind
<1>4. ASSUME NEW i \in Id, OpenIntents = {}, RecordDecision(i) PROVE KeepingStep(p)
  <2>1. \A j \in Id : \/ lastEvent'[j] = lastEvent[j]
                      \/ lastEvent'[j].kind = "ADMITTED"
    BY <1>1, <1>4 DEF RecordDecision, SetEvent
  <2>. QED
    BY <1>1, <1>4, <2>1
       DEF RecordDecision, UnchangedApplication, KeepingStep, BasisKept, IntentKind,
           OpenIntents
<1>5. ASSUME NEW i \in Id, OpenIntents = {}, SupersedeOthers(i) PROVE KeepingStep(p)
  <2>1. \A j \in Id : lastEvent'[j] = lastEvent[j] \/ lastEvent'[j].kind = "SUPERSEDED"
    BY <1>5 DEF SupersedeOthers, NoEvent
  <2>. QED
    BY <1>1, <1>5, <2>1
       DEF SupersedeOthers, UnchangedApplication, KeepingStep, BasisKept, IntentKind,
           OpenIntents
<1>6. ASSUME NEW i \in Id, market = content, AbandonIntent(i) PROVE KeepingStep(p)
  <2>1. \A j \in Id : lastEvent'[j] = lastEvent[j] \/ lastEvent'[j].kind = "ABANDONED"
    BY <1>1, <1>6 DEF AbandonIntent, SetEvent
  <2>. QED
    BY <1>1, <1>6, <2>1
       DEF AbandonIntent, UnchangedApplication, KeepingStep, BasisKept, IntentKind
<1>. QED
  BY <1>2, <1>3, <1>4, <1>5, <1>6

\* What moving a process means for its obligations.
LEMMA MovedReady ==
    ASSUME TypeInv, NEW p \in Proc
    PROVE  /\ Finish(p) => OnlyMoves(p) /\ JobReady(p)'
           /\ \A ph : Goto(p, ph) /\ ph \notin ReadyPhase =>
                OnlyMoves(p) /\ JobReady(p)'
           /\ job' = job /\ job[p].phase \notin ReadyPhase =>
                OnlyMoves(p) /\ JobReady(p)'
<1>1. job \in [Proc -> Job] /\ job[p] \in Job
  BY DEF TypeInv, TypeOK, StoreTypeOK
<1>2. Finish(p) => OnlyMoves(p) /\ job'[p].phase = "idle"
  BY <1>1 DEF Finish, OnlyMoves, IdleJob
<1>3. ASSUME NEW ph, Goto(p, ph) PROVE OnlyMoves(p) /\ job'[p].phase = ph
  BY <1>3, Moved
<1>. QED
  BY <1>1, <1>2, <1>3, FreeReady DEF ReadyPhase, OnlyMoves

\* A block that repeats an open one records nothing; any other is new.
LEMMA BlockRecorded ==
    ASSUME TypeInv, NEW p, NEW i \in Id, NEW r, NEW S, NEW w,
           job[p].phase \in LockedPhase, OpenIntents = {}, UNCHANGED market,
           r = "BLOCKED_REVISION_CHANGED" =>
                i \notin receipt /\ Disagrees(content, i.batch),
           RecordBlock(i, r, S, w)
    PROVE  KeepingStep(p) \/ BlockingStep(p)
<1>1. CASE \E k \in Unresolved : k.id = i /\ k.result = r
  <2>1. UNCHANGED logVars
    BY <1>1 DEF RecordBlock, UnchangedApplication, logVars
  <2>. QED
    BY <2>1, KeepingFacts
<1>2. CASE ~\E k \in Unresolved : k.id = i /\ k.result = r
  <2>0. PICK k : k = [ticket |-> ticket, id |-> i, result |-> r,
                      affected |-> S, window |-> w]
    OBVIOUS
  <2>1. /\ block' = block \cup {k} /\ ticket' = ticket + 1
        /\ SetEvent(i, "BLOCKED", ticket, NoClaim)
        /\ UnchangedApplication /\ resolution' = resolution
    BY <1>2, <2>0 DEF RecordBlock
  <2>2. k.ticket = ticket /\ k.id = i /\ k.result = r
    BY <2>0
  <2>3. lastEvent \in [Id -> Event]
    BY DEF TypeInv, TypeOK, LogTypeOK
  <2>4. \A j \in Id : lastEvent'[j] = lastEvent[j] \/ lastEvent'[j].kind = "BLOCKED"
    BY <2>1, <2>3 DEF SetEvent
  <2>5. OpenIntents' = {}
    BY <2>4 DEF OpenIntents, IntentKind
  <2>6. \E m : /\ block' = block \cup {m}
               /\ m.ticket = ticket /\ ticket' = ticket + 1
               /\ m.result = "BLOCKED_REVISION_CHANGED" =>
                     m.id \notin receipt /\ Disagrees(content, m.id.batch)
    BY <2>1, <2>2
  <2>. QED
    BY <2>1, <2>5, <2>6 DEF BlockingStep, UnchangedApplication, BasisKept
<1>. QED
  BY <1>1, <1>2

\* A batch classified as revised disagrees with the history.
LEMMA RevisedDisagrees ==
    ASSUME NEW h, NEW b, Classify(h, b) = "BLOCKED_REVISION_CHANGED"
    PROVE  Disagrees(h, b)
<1>1. Changed(h, b) # {}
  BY DEF Classify
<1>2. PICK s \in Changed(h, b) : TRUE
  BY <1>1
<1>3. /\ s \in Session /\ s \in Stored(h) /\ b.rows[s] # NoRow /\ b.rows[s] # h[s]
  BY <1>2 DEF Changed, Window, Stored
<1>4. s \in Stored(b.rows) /\ s <= s
  BY <1>3, SessionsAssumption DEF Stored, Session
<1>. QED
  BY <1>3, <1>4 DEF Disagrees, Within

\* Recovery applies or withdraws an interrupted append; it confirms nothing.
LEMMA SettleAppendRecovers ==
    ASSUME TypeInv, CoreInv, LogReady, NEW p \in Proc, NEW i \in OpenIntents,
           SettleAppend(p, i), job[p].phase = "locked"
    PROVE  RecoveryAction(p)
<1>. USE CoreClaims
<1>0. PICK f : f = Reconciled(lastEvent[i].claim.sessions, market)
  OBVIOUS
<1>1. /\ lastEvent[i].kind = "INTENT" /\ f.sessions = lastEvent[i].claim.sessions
      /\ f.content = market /\ f.confirmed = {} /\ i \in Id
  BY <1>0 DEF SettleAppend, Reconciled, OpenIntents
<1>2. (UNCHANGED storeVars \/ FinishLocked(p)) /\ UNCHANGED market
  BY DEF SettleAppend, FinishLocked, storeVars
<1>3. OnlyMoves(p) /\ JobReady(p)'
  BY <1>2, MovedReady DEF FinishLocked, storeVars, ReadyPhase
<1>4. CASE RowsPresent(i) /\ RecordApplication(i, f)
  <2>1. CASE Finalizes(i, f)
    <3>1. ApplyingStep(p, i)
      BY <1>1, <1>2, <1>4, <2>1, AppendSettled, AppendApplies
    <3>. QED
      BY <1>3, <3>1 DEF RecoveryAction
  <2>2. CASE ~Finalizes(i, f)
    <3>1. UNCHANGED logVars
      BY <1>4, <2>2 DEF RecordApplication
    <3>. QED
      BY <1>2, <1>3, <3>1, KeepingFacts DEF RecoveryAction
  <2>. QED
    BY <2>1, <2>2
<1>5. CASE RowsAbsent(i) /\ AbandonIntent(i)
  BY <1>1, <1>2, <1>3, <1>5, AppendSettled, KeepingFacts DEF RecoveryAction
<1>. QED
  BY <1>0, <1>4, <1>5 DEF SettleAppend

\* So it does with an interrupted rebase.
LEMMA SettleRebaseRecovers ==
    ASSUME TypeInv, CoreInv, LogReady, NEW p \in Proc, NEW i \in OpenIntents,
           SettleRebase(p, i),
           job[p].phase \in {"locked", "rebase_locked", "recover_locked"}
    PROVE  RecoveryAction(p)
<1>. USE CoreClaims
<1>0. PICK e : e = lastEvent[i]
  OBVIOUS
<1>1. e.kind = "REBASE_INTENT" /\ i \in Id
  BY <1>0 DEF SettleRebase, OpenIntents
<1>2. (UNCHANGED storeVars \/ FinishLocked(p)) /\ UNCHANGED market
  BY DEF SettleRebase, FinishLocked, storeVars
<1>3. OnlyMoves(p) /\ JobReady(p)'
  BY <1>2, MovedReady DEF FinishLocked, storeVars, ReadyPhase
<1>4. CASE market = e.claim.post /\ RecordRebase(i, e.claim, e.ticket)
  <2>1. CASE Rebases(i, e.claim, e.ticket)
    <3>1. ApplyingStep(p, i)
      BY <1>0, <1>1, <1>2, <1>4, <2>1, RebaseApplies
    <3>. QED
      BY <1>3, <3>1 DEF RecoveryAction
  <2>2. CASE ~Rebases(i, e.claim, e.ticket)
    <3>1. UNCHANGED logVars
      BY <1>4, <2>2 DEF RecordRebase
    <3>. QED
      BY <1>2, <1>3, <3>1, KeepingFacts DEF RecoveryAction
  <2>. QED
    BY <2>1, <2>2
<1>5. CASE market = e.claim.pre /\ AbandonIntent(i)
  <2>1. e.claim.pre = content
    BY <1>0, <1>1, ClaimedChange
  <2>. QED
    BY <1>1, <1>2, <1>3, <1>5, <2>1, KeepingFacts DEF RecoveryAction
<1>. QED
  BY <1>0, <1>4, <1>5 DEF SettleRebase

\* Every step of an admission keeps what recovery needs.
LEMMA AdmissionRecovers ==
    ASSUME MarketInv, RecoveryInv, Faultless, NEW p \in Proc, Admission(p)
    PROVE  RecoveryAction(p)
<1>. USE CoreClaims
<1>0. PICK i, f : i = job[p].id /\ f = job[p].final
  OBVIOUS
<1>. USE <1>0 DEF At
<1>. DEFINE b == i.batch
<1>1. TypeInv /\ CoreInv /\ JobConsistent(p) /\ LogReady /\ JobReady(p)
  BY DEF MarketInv, CoreInv, JobsConsistent, RecoveryInv
<1>2. /\ job \in [Proc -> Job] /\ job[p] \in Job /\ content \in History
      /\ lastEvent \in [Id -> Event] /\ ticket \in Nat
  BY <1>1 DEF TypeInv, TypeOK, StoreTypeOK, LogTypeOK
<1>3. job[p].phase \notin NoIdPhase => i \in Id /\ b \in Batch
  BY <1>1, IdentifiedJob DEF JobsOK, TypeInv, TypeOK, StoreTypeOK
<1>4. OpenIntents = {} => market = content
  BY <1>1 DEF CoreInv, SettledMarketIsVersioned
<1>10. CASE ReuseReceipt(p)
  BY <1>1, <1>10, KeepingFacts, MovedReady DEF ReuseReceipt, RecoveryAction
<1>11. CASE InvalidReceipt(p) \/ NoReceipt(p) \/ Lock(p)
  BY <1>1, <1>11, KeepingFacts, MovedReady
     DEF InvalidReceipt, NoReceipt, Lock, AcquireLock, RecoveryAction, ReadyPhase
<1>12. CASE BindReadmission(p)
  <2>1. OnlyMoves(p) /\ job'[p].phase = "readmitted"
    BY <1>2, <1>12 DEF BindReadmission, OnlyMoves, Job
  <2>. QED
    BY <1>1, <1>12, <2>1, KeepingFacts, FreeReady
       DEF BindReadmission, RecoveryAction, ReadyPhase
<1>13. CASE PersistReadmission(p)
  BY <1>1, <1>3, <1>13, KeepingFacts, MovedReady
     DEF PersistReadmission, RecoveryAction, ReadyPhase, NoIdPhase
<1>14. CASE \E k \in OpenIntents : Settle(p, k)
  BY <1>1, <1>14, SettleAppendRecovers, SettleRebaseRecovers DEF Settle
<1>15. CASE \E k \in OpenIntents : BlockAmbiguous(p, k)
  <2>1. PICK k \in OpenIntents : Ambiguous(k)
    BY <1>15 DEF BlockAmbiguous
  <2>2. lastEvent[k].kind = "REBASE_INTENT"
    BY <1>1, <2>1, AppendSettled DEF Ambiguous
  <2>3. market \in {lastEvent[k].claim.pre, lastEvent[k].claim.post}
    BY <1>1, <2>2 DEF CoreInv, IntentsExplainMarket, RewriteClaimed, OpenIntents
  <2>. QED
    BY <2>1, <2>2, <2>3 DEF Ambiguous
<1>16. CASE Recovered(p)
  BY <1>1, <1>16, KeepingFacts, MovedReady DEF Recovered, FinishLocked, RecoveryAction
<1>17. CASE Supersede(p)
  <2>1. KeepingStep(p)
    BY <1>1, <1>3, <1>17, KeepingFacts DEF Supersede, NoIdPhase
  <2>2. OnlyMoves(p) /\ job'[p].phase = "comparing"
    BY <1>1, <1>17, Moved DEF Supersede
  <2>3. job'[p].id = i /\ i \notin receipt /\ receipt' = receipt
    BY <1>2, <1>17, <2>1 DEF Supersede, Goto, Job, KeepingStep, BasisKept
  <2>4. JobReady(p)'
    BY <2>2, <2>3 DEF JobReady
  <2>. QED
    BY <2>1, <2>2, <2>4 DEF RecoveryAction
<1>18. CASE BlockMismatch(p)
  <2>1. OpenIntents = {} /\ i \in Id /\ UNCHANGED market /\ job[p].phase \in LockedPhase
    BY <1>1, <1>3, <1>18
       DEF BlockMismatch, FinishLocked, JobConsistent, NoIdPhase, LockedPhase
  <2>2. KeepingStep(p) \/ BlockingStep(p)
    BY <1>1, <1>18, <2>1, BlockRecorded DEF BlockMismatch
  <2>. QED
    BY <1>1, <1>18, <2>2, MovedReady DEF BlockMismatch, FinishLocked, RecoveryAction
<1>19. CASE BlockRevision(p)
  <2>1. /\ OpenIntents = {} /\ i \in Id /\ UNCHANGED market
        /\ job[p].phase \in LockedPhase /\ market = content /\ i \notin receipt
    BY <1>1, <1>3, <1>4, <1>19
       DEF BlockRevision, FinishLocked, JobConsistent, JobReady, NoIdPhase, LockedPhase
  <2>2. Classify(market, b) = "BLOCKED_REVISION_CHANGED" => Disagrees(content, b)
    BY <2>1, RevisedDisagrees
  <2>3. KeepingStep(p) \/ BlockingStep(p)
    BY <1>1, <1>19, <2>1, <2>2, BlockRecorded DEF BlockRevision
  <2>. QED
    BY <1>1, <1>19, <2>3, MovedReady DEF BlockRevision, FinishLocked, RecoveryAction
<1>20. CASE Decide(p)
  <2>. DEFINE S == NewSessions(market, b)
  <2>0. PICK g : g = [sessions |-> S, content |-> Write(market, b, S),
                      decision |-> ticket, bound |-> version,
                      confirmed |-> Confirmed(market, b)]
    OBVIOUS
  <2>1. OpenIntents = {} /\ i \in Id /\ b \in Batch /\ market = content /\ i \notin receipt
    BY <1>1, <1>3, <1>4, <1>20 DEF Decide, JobConsistent, JobReady, NoIdPhase
  <2>2. KeepingStep(p)
    BY <1>1, <1>20, <2>1, KeepingFacts DEF Decide
  <2>3. OnlyMoves(p) /\ job'[p].phase = "decided" /\ job'[p].final = g
        /\ job'[p].id = i
    BY <1>2, <1>20, <2>0 DEF Decide, OnlyMoves, Job
  <2>4. UNCHANGED <<market, version, receipt>>
    BY <1>20, <2>2 DEF Decide, KeepingStep, BasisKept
  <2>5. Whole(g.content, b)
    BY <1>2, <1>20, <2>0, <2>1, AdmittedIsWhole DEF Decide
  <2>6. g.bound = version /\ \A s \in g.confirmed : market[s] = b.rows[s]
    BY <2>0 DEF Confirmed
  <2>7. JobReady(p)'
    BY <2>1, <2>3, <2>4, <2>5, <2>6 DEF JobReady, DecisionIsCurrent
  <2>. QED
    BY <2>2, <2>3, <2>7 DEF RecoveryAction
<1>21. CASE FinalizeNoOp(p)
  <2>1. /\ OpenIntents = {} /\ i \in Id /\ UNCHANGED market /\ f.sessions = {}
        /\ job[p].phase \in LockedPhase /\ RecordApplication(i, f)
        /\ IsAppend(f, b) /\ DecisionIsCurrent(job[p])
    BY <1>1, <1>3, <1>21
       DEF FinalizeNoOp, FinishLocked, JobConsistent, JobReady, NoIdPhase, LockedPhase
  <2>2. Write(content, b, {}) = content
    BY <1>2 DEF Write, History
  <2>3. Whole(content, b) /\ \A s \in f.confirmed : market[s] = b.rows[s]
    BY <2>1, <2>2 DEF IsAppend, DecisionIsCurrent
  <2>4. OnlyMoves(p) /\ JobReady(p)'
    BY <1>1, <1>21, MovedReady DEF FinalizeNoOp, FinishLocked
  <2>5. CASE Finalizes(i, f)
    BY <1>1, <2>1, <2>3, <2>4, <2>5, NoOpApplies DEF RecoveryAction
  <2>6. CASE ~Finalizes(i, f)
    <3>1. UNCHANGED logVars
      BY <2>1, <2>6 DEF RecordApplication
    <3>. QED
      BY <1>1, <2>1, <2>4, <3>1, KeepingFacts DEF RecoveryAction
  <2>. QED
    BY <2>5, <2>6
<1>22. CASE ClaimSessions(p)
  <2>1. /\ OpenIntents = {} /\ i \in Id /\ f.sessions # {} /\ job[p].phase = "decided"
        /\ i \notin receipt /\ IsAppend(f, b) /\ DecisionIsCurrent(job[p])
    BY <1>1, <1>3, <1>22 DEF ClaimSessions, JobConsistent, JobReady, NoIdPhase
  <2>2. OnlyMoves(p) /\ job'[p].phase = "claimed" /\ job'[p].id = i
        /\ job'[p].final = f
    BY <1>2, <1>22 DEF ClaimSessions, Goto, OnlyMoves, Job
  <2>3. /\ lastEvent' = [lastEvent EXCEPT ![i] =
                [kind |-> "INTENT", ticket |-> ticket,
                 claim |-> [NoClaim EXCEPT !.sessions = f.sessions]]]
        /\ BasisKept /\ UNCHANGED <<market, resolution, block>> /\ ticket' = ticket + 1
    BY <1>22 DEF ClaimSessions, RecordIntent, SetEvent, UnchangedApplication, BasisKept
  <2>4. lastEvent'[i].kind = "INTENT" /\ lastEvent'[i].claim.sessions = f.sessions
        /\ \A k \in Id : k # i => lastEvent'[k].kind \notin IntentKind
    BY <1>2, <2>1, <2>3 DEF NoClaim, OpenIntents
  <2>5. OpenIntents' = {i}
    BY <2>1, <2>4 DEF OpenIntents, IntentKind
  <2>6. Whole(Write(content, b, f.sessions), b)
    BY <2>1 DEF IsAppend, DecisionIsCurrent
  <2>7. ClaimsAreCurrent'
    BY <2>3, <2>4, <2>5, <2>6 DEF ClaimsAreCurrent, BasisKept
  <2>8. ticket <= ticket' /\ job[p].phase \in LockedPhase
    BY <1>2, <2>1, <2>3 DEF LockedPhase
  <2>9. CurrentClaimStep(p, i)
    BY <2>1, <2>3, <2>5, <2>7, <2>8 DEF CurrentClaimStep
  <2>10. JobReady(p)'
    BY <2>1, <2>2, <2>3 DEF JobReady, DecisionIsCurrent, BasisKept
  <2>. QED
    BY <2>2, <2>9, <2>10 DEF RecoveryAction
<1>23. CASE AppendRows(p)
  <2>1. /\ i \in Id /\ market = content /\ job[p].phase = "claimed"
        /\ DecisionIsCurrent(job[p])
    BY <1>1, <1>3, <1>23 DEF AppendRows, JobConsistent, JobReady, NoIdPhase
  <2>2. UNCHANGED logVars /\ market' = Write(market, b, f.sessions)
    BY <1>23 DEF AppendRows
  <2>3. OnlyMoves(p) /\ job'[p].phase = "committed" /\ job'[p].id = i
        /\ job'[p].final = f
    BY <1>2, <1>23 DEF AppendRows, Goto, OnlyMoves, Job
  <2>4. KeepingStep(p)
    BY <1>2, <2>1, <2>2 DEF KeepingStep, BasisKept, logVars, LockedPhase
  <2>5. f.confirmed \subseteq Session
    BY <1>2 DEF Job, Finalization
  <2>6. \A s \in f.confirmed : market'[s] = b.rows[s]
    BY <2>1, <2>2, <2>5 DEF DecisionIsCurrent, Write
  <2>7. JobReady(p)'
    BY <2>1, <2>2, <2>3, <2>6 DEF JobReady, DecisionIsCurrent, logVars
  <2>. QED
    BY <2>3, <2>4, <2>7 DEF RecoveryAction
<1>24. CASE FinalizeAppend(p)
  <2>1. i \in Id /\ RecordApplication(i, f) /\ UNCHANGED market
        /\ job[p].phase = "committed"
    BY <1>3, <1>24 DEF FinalizeAppend, NoIdPhase
  <2>2. OnlyMoves(p) /\ JobReady(p)'
    BY <1>1, <1>24, MovedReady DEF FinalizeAppend
  <2>3. CASE Finalizes(i, f)
    <3>1. /\ Claims(i, f) /\ market = f.content /\ DecisionIsCurrent(job[p])
          /\ f.content = Write(content, b, f.sessions)
      BY <1>1, <2>1, <2>3 DEF Finalizes, JobConsistent, JobReady
    <3>2. /\ i \in OpenIntents /\ lastEvent[i].kind = "INTENT"
          /\ f.sessions = lastEvent[i].claim.sessions
          /\ \A s \in f.confirmed : market[s] = b.rows[s]
      BY <2>1, <3>1 DEF Claims, OpenIntents, IntentKind, DecisionIsCurrent
    <3>3. ApplyingStep(p, i)
      BY <1>1, <2>1, <2>3, <3>1, <3>2, AppendApplies
    <3>. QED
      BY <2>2, <3>3 DEF RecoveryAction
  <2>4. CASE ~Finalizes(i, f)
    <3>1. UNCHANGED logVars
      BY <2>1, <2>4 DEF RecordApplication
    <3>. QED
      BY <1>1, <2>1, <2>2, <3>1, KeepingFacts DEF RecoveryAction
  <2>. QED
    BY <2>3, <2>4
<1>25. CASE AppendFails(p) \/ AbandonAfterRollback(p)
  BY <1>25 DEF AppendFails, AbandonAfterRollback, Faultless, MarketInv, NothingFailed
<1>. QED
  BY <1>10, <1>11, <1>12, <1>13, <1>14, <1>15, <1>16, <1>17, <1>18, <1>19, <1>20,
     <1>21, <1>22, <1>23, <1>24, <1>25 DEF Admission

\* A rebase is planned so that it resolves every open revision block which the
\* reviewed basis agrees with.
LEMMA PlanCurrent ==
    ASSUME TypeInv, CoreInv, LogReady, NEW k \in block, Eligible(k)
    PROVE  /\ PlanIsCurrent(k.id, RebaseClaim(k))
           /\ k.id \notin receipt
<1>. DEFINE b == k.id.batch
            S == Changed(market, b)
            w == Write(market, b, S)
<1>0. PICK c : c = RebaseClaim(k)
  OBVIOUS
<1>1. /\ c.on = version /\ c.post = w /\ c.block = k.ticket
      /\ c.older = SupersededBlocks(k, w)
  BY <1>0 DEF RebaseClaim
<1>2. /\ k \in Unresolved /\ k.result = "BLOCKED_REVISION_CHANGED"
      /\ \A n \in Unresolved : n.ticket <= k.ticket
      /\ S # {} /\ Missing(market, b) = {} /\ UnstoredInside(market, b) = {}
      /\ Window(market, b) = Stored(market)
  BY DEF Eligible
<1>3. market \in History /\ b \in Batch /\ \A n \in block : n.ticket \in Nat
  BY DEF TypeInv, TypeOK, StoreTypeOK, LogTypeOK, Block, Id
<1>4. Stored(w) = Stored(market) /\ Stored(w) # {}
  <2>1. S \subseteq Stored(market) \cap Stored(b.rows)
    BY <1>2, <1>3, ChangedFacts
  <2>2. Stored(Write(market, b, S)) = Stored(market)
    BY <2>1, RewriteFacts
  <2>. QED
    BY <1>2, <2>1, <2>2
<1>5. \A s \in Session : w[s] = IF s \in S THEN b.rows[s] ELSE market[s]
  BY DEF Write
<1>6. ~Disagrees(w, b)
  <2>1. ASSUME NEW s \in Stored(b.rows), Within(w, s) PROVE w[s] = b.rows[s]
    <3>1. s \in Session /\ b.rows[s] # NoRow /\ Within(market, s)
      BY <1>4, <2>1 DEF Stored, Within
    <3>2. market[s] # NoRow
      BY <1>2, <3>1, <2>1 DEF UnstoredInside
    <3>3. s \in Window(market, b)
      BY <1>2, <3>1, <3>2 DEF Stored
    <3>4. s \notin S => market[s] = b.rows[s]
      BY <3>1, <3>3 DEF Changed
    <3>. QED
      BY <1>5, <3>1, <3>4
  <2>2. Missing(w, b) = {}
    <3>1. Window(w, b) = Window(market, b)
      BY <1>4 DEF Window
    <3>. QED
      BY <1>2, <3>1 DEF Missing
  <2>. QED
    BY <2>1, <2>2 DEF Disagrees
<1>7. ASSUME NEW n \in block, OpenRevision(n), n.ticket # c.block,
             ~Disagrees(c.post, n.id.batch)
      PROVE  n.ticket \in c.older
  <2>1. n \in Unresolved /\ n.result = "BLOCKED_REVISION_CHANGED"
    BY <1>7 DEF OpenRevision
  <2>2. n.ticket < k.ticket
    <3>1. n.ticket <= k.ticket /\ n.ticket # k.ticket
      BY <1>1, <1>2, <1>7, <2>1
    <3>. QED
      BY <1>3, <3>1
  <2>3. CompatibleWithBasis(n.id.batch, w)
    BY <1>1, <1>4, <1>7 DEF CompatibleWithBasis, Disagrees
  <2>. QED
    BY <1>1, <2>1, <2>2, <2>3 DEF SupersededBlocks
<1>8. k.id \notin receipt
  BY <1>2 DEF LogReady, AppliedHasNoOpenRevision
<1>. QED
  BY <1>0, <1>1, <1>6, <1>7, <1>8 DEF PlanIsCurrent

\* Every step of a rebase or a recovery keeps what recovery needs.
LEMMA ReviewedRecovers ==
    ASSUME MarketInv, RecoveryInv, Faultless, NEW p \in Proc, Reviewed(p)
    PROVE  RecoveryAction(p)
<1>0. PICK i, c, t : i = job[p].id /\ c = job[p].claim /\ t = job[p].ticket
  OBVIOUS
<1>. USE <1>0 DEF At
<1>1. TypeInv /\ CoreInv /\ JobConsistent(p) /\ LogReady /\ JobReady(p)
  BY DEF MarketInv, CoreInv, JobsConsistent, RecoveryInv
<1>2. /\ job \in [Proc -> Job] /\ job[p] \in Job
      /\ lastEvent \in [Id -> Event] /\ ticket \in Nat
  BY <1>1 DEF TypeInv, TypeOK, StoreTypeOK, LogTypeOK
<1>3. job[p].phase \notin NoIdPhase => i \in Id
  BY <1>1, IdentifiedJob DEF JobsOK, TypeInv, TypeOK, StoreTypeOK
<1>10. CASE \E k \in block : PlanRebase(p, k)
  <2>1. PICK k \in block : PlanRebase(p, k)
    BY <1>10
  <2>2. k.id = i /\ UNCHANGED logVars /\ UNCHANGED market
    BY <2>1 DEF PlanRebase
  <2>3. OnlyMoves(p) /\ job'[p].phase = "rebase_planned" /\ job'[p].id = i
        /\ job'[p].claim = RebaseClaim(k)
    BY <1>2, <2>1 DEF PlanRebase, OnlyMoves, Job
  <2>4. PlanIsCurrent(i, RebaseClaim(k)) /\ i \notin receipt
    BY <1>1, <2>1, <2>2, PlanCurrent DEF PlanRebase
  <2>5. PlanIsCurrent(i, RebaseClaim(k))'
    <3>1. RebaseClaim(k)' = RebaseClaim(k)
      BY <2>2 DEF RebaseClaim, SupersededBlocks, Unresolved, Resolved, logVars
    <3>. QED
      BY <2>2, <2>4, <3>1
         DEF PlanIsCurrent, OpenRevision, Unresolved, Resolved, logVars
  <2>6. JobReady(p)'
    <3>1. RebaseClaim(k)' = RebaseClaim(k)
      BY <2>2 DEF RebaseClaim, SupersededBlocks, Unresolved, Resolved, logVars
    <3>. QED
      BY <2>2, <2>3, <2>4, <2>5, <3>1 DEF JobReady, logVars
  <2>. QED
    BY <1>1, <2>2, <2>3, <2>6, KeepingFacts DEF RecoveryAction
<1>11. CASE LockRebase(p) \/ LockRecovery(p)
  BY <1>1, <1>11, KeepingFacts, MovedReady
     DEF LockRebase, LockRecovery, AcquireLock, RecoveryAction, ReadyPhase
<1>12. CASE RefuseRebase(p) \/ ClaimRefused(p) \/ FinishRecovery(p)
  BY <1>1, <1>12, KeepingFacts, MovedReady
     DEF RefuseRebase, ClaimRefused, FinishRecovery, FinishLocked, RecoveryAction
<1>13. CASE \E k \in OpenRebases : RebaseSettle(p, k) \/ RecoverySettle(p, k)
  BY <1>1, <1>13, SettleRebaseRecovers
     DEF RebaseSettle, RecoverySettle, OpenRebases, OpenIntents, IntentKind
<1>14. CASE ClaimBlock(p)
  <2>1. /\ OpenIntents = {} /\ i \in Id /\ PlanIsCurrent(i, c) /\ i \notin receipt
        /\ job[p].phase = "rebase_planned"
    BY <1>1, <1>3, <1>14 DEF ClaimBlock, JobConsistent, JobReady, NoIdPhase
  <2>2. OnlyMoves(p) /\ job'[p].phase = "rebase_claimed"
    BY <1>2, <1>14 DEF ClaimBlock, OnlyMoves, Job
  <2>3. /\ lastEvent' = [lastEvent EXCEPT ![i] =
                [kind |-> "REBASE_INTENT", ticket |-> ticket, claim |-> c]]
        /\ BasisKept /\ UNCHANGED <<market, resolution, block>> /\ ticket' = ticket + 1
    BY <1>14 DEF ClaimBlock, RecordRebaseIntent, SetEvent, UnchangedApplication,
                 BasisKept
  <2>4. lastEvent'[i] = [kind |-> "REBASE_INTENT", ticket |-> ticket, claim |-> c]
        /\ \A k \in Id : k # i => lastEvent'[k].kind \notin IntentKind
    BY <1>2, <2>1, <2>3 DEF OpenIntents
  <2>5. OpenIntents' = {i}
    BY <2>1, <2>4 DEF OpenIntents, IntentKind
  <2>6. PlanIsCurrent(i, c)'
    BY <2>1, <2>3 DEF PlanIsCurrent, OpenRevision, Unresolved, Resolved, BasisKept
  <2>7. ClaimsAreCurrent'
    BY <2>4, <2>5, <2>6 DEF ClaimsAreCurrent
  <2>8. ticket <= ticket' /\ job[p].phase \in LockedPhase
    BY <1>2, <2>1, <2>3 DEF LockedPhase
  <2>9. CurrentClaimStep(p, i)
    BY <2>1, <2>3, <2>5, <2>7, <2>8 DEF CurrentClaimStep
  <2>. QED
    BY <2>2, <2>9, FreeReady DEF RecoveryAction, ReadyPhase
<1>15. CASE RewriteRows(p)
  <2>1. /\ i \in Id /\ market = content /\ job[p].phase = "rebase_claimed"
        /\ lastEvent[i] = [kind |-> "REBASE_INTENT", ticket |-> t, claim |-> c]
    BY <1>1, <1>3, <1>15 DEF RewriteRows, JobConsistent, NoIdPhase
  <2>2. UNCHANGED logVars
    BY <1>15 DEF RewriteRows
  <2>3. OnlyMoves(p) /\ job'[p].phase = "rebase_committed" /\ job'[p].id = i
        /\ job'[p].claim = c /\ job'[p].ticket = t
    BY <1>2, <1>15 DEF RewriteRows, Goto, OnlyMoves, Job
  <2>4. KeepingStep(p)
    BY <1>2, <2>1, <2>2 DEF KeepingStep, BasisKept, logVars, LockedPhase
  <2>5. JobReady(p)'
    BY <2>1, <2>2, <2>3 DEF JobReady, logVars
  <2>. QED
    BY <2>3, <2>4, <2>5 DEF RecoveryAction
<1>16. CASE FinalizeRebase(p)
  <2>1. /\ i \in Id /\ RecordRebase(i, c, t) /\ UNCHANGED market
        /\ job[p].phase = "rebase_committed"
    BY <1>3, <1>16 DEF FinalizeRebase, NoIdPhase
  <2>2. OnlyMoves(p) /\ JobReady(p)'
    BY <1>1, <1>16, MovedReady DEF FinalizeRebase
  <2>3. CASE Rebases(i, c, t)
    <3>1. lastEvent[i].kind = "REBASE_INTENT" /\ lastEvent[i].claim = c
          /\ market = c.post /\ i \in OpenIntents
      BY <1>1, <2>1, <2>3 DEF Rebases, MayRebase, JobConsistent, OpenIntents, IntentKind
    <3>2. ApplyingStep(p, i)
      BY <1>1, <2>1, <2>3, <3>1, RebaseApplies
    <3>. QED
      BY <2>2, <3>2 DEF RecoveryAction
  <2>4. CASE ~Rebases(i, c, t)
    <3>1. UNCHANGED logVars
      BY <2>1, <2>4 DEF RecordRebase
    <3>. QED
      BY <1>1, <2>1, <2>2, <3>1, KeepingFacts DEF RecoveryAction
  <2>. QED
    BY <2>3, <2>4
<1>17. CASE RewriteFails(p)
  BY <1>17 DEF RewriteFails, Faultless
<1>. QED
  BY <1>10, <1>11, <1>12, <1>13, <1>14, <1>15, <1>16, <1>17 DEF Reviewed

\* One such step keeps all of it, for every process.
LEMMA RecoveryStep ==
    ASSUME MarketInv, TypeInv', RecoveryInv, NEW p \in Proc, RecoveryAction(p)
    PROVE  RecoveryInv'
<1>1. /\ TypeInv /\ CoreInv /\ LogReady
      /\ \A q \in Proc : JobConsistent(q) /\ JobReady(q)
      /\ LockDiscipline
  BY DEF MarketInv, CoreInv, JobsConsistent, RecoveryInv
<1>2. \A q \in Proc : q # p => Rests(q)
  BY <1>1 DEF RecoveryAction, OnlyMoves, Rests
<1>3. job[p].phase \in LockedPhase =>
        \A q \in Proc : q # p => job[q].phase \notin LockedPhase
  BY <1>1 DEF LockDiscipline
<1>4. LogReady' /\ \A q \in Proc : q # p => JobReady(q)'
  <2>1. CASE KeepingStep(p)
    BY <1>1, <1>2, <1>3, <2>1, KeepingLog, KeepingJob
  <2>2. CASE BlockingStep(p)
    <3>1. LogReady'
      BY <1>1, <2>2, BlockingLog
    <3>2. \A q \in Proc : q # p => JobReady(q)'
      BY <1>1, <1>2, <1>3, <2>2, SettledJob DEF BlockingStep, BasisKept
    <3>. QED
      BY <3>1, <3>2
  <2>3. ASSUME NEW i, CurrentClaimStep(p, i)
        PROVE  LogReady' /\ \A q \in Proc : q # p => JobReady(q)'
    <3>1. LogReady'
      BY <1>1, <2>3, ClaimLog
    <3>2. \A q \in Proc : q # p => JobReady(q)'
      BY <1>1, <1>2, <1>3, <2>3, SettledJob DEF CurrentClaimStep, BasisKept
    <3>. QED
      BY <3>1, <3>2
  <2>4. ASSUME NEW i, ApplyingStep(p, i)
        PROVE  LogReady' /\ \A q \in Proc : q # p => JobReady(q)'
    <3>1. LogReady' /\ receipt' = receipt \cup {i} /\ rebasedBlock \subseteq rebasedBlock'
          /\ receipt \subseteq receipt' /\ market' = market
      BY <2>4 DEF ApplyingStep
    <3>2. CASE job[p].phase \in LockedPhase /\ OpenIntents = {} /\ version' = version
      BY <1>1, <1>2, <1>3, <3>1, <3>2, SettledJob
    <3>3. CASE /\ i \in OpenIntents /\ market # content
               /\ lastEvent[i].kind = "REBASE_INTENT" =>
                    lastEvent[i].claim.block \in rebasedBlock'
      BY <1>1, <1>2, <3>1, <3>3, AppliedJob
    <3>. QED
      BY <2>4, <3>2, <3>3 DEF ApplyingStep
  <2>. QED
    BY <2>1, <2>2, <2>3, <2>4 DEF RecoveryAction
<1>. QED
  BY <1>4 DEF RecoveryInv, RecoveryAction

\* A step outside the processes' calls is one that keeps.
OutsideStep == job' = job /\ market' = market /\ \E p : KeepingStep(p)

\* Every step of the protocol is one of these.
LEMMA EveryRecoveryStep ==
    ASSUME MarketInv, RecoveryInv, Faultless, [Next]_vars
    PROVE  (\E p \in Proc : RecoveryAction(p)) \/ OutsideStep
<1>1. TypeInv
  BY DEF MarketInv
<1>2. \A p \in Proc : Progress(p) => RecoveryAction(p)
  BY AdmissionRecovers, ReviewedRecovers DEF Progress
<1>3. ASSUME NEW p \in Proc, Crash(p) PROVE RecoveryAction(p)
  BY <1>1, <1>3, KeepingFacts, MovedReady DEF Crash, RecoveryAction
<1>4. ASSUME NEW p \in Proc, Call(p) PROVE RecoveryAction(p)
  <2>1. KeepingStep(p)
    <3>1. CASE \E b \in Batch : Observe(p, b)
      <4>1. PICK b \in Batch : PersistObservation(Observation(b)) /\ UNCHANGED market
        BY <3>1 DEF Observe
      <4>2. Observation(b) \in Id
        BY MaxVersionAssumption DEF Observation, Id
      <4>. QED
        BY <1>1, <4>1, <4>2, KeepingFacts
    <3>. QED
      BY <1>1, <1>4, <3>1, KeepingFacts DEF Call, RequestRebase, RequestRecovery
  <2>2. \E j : job' = [job EXCEPT ![p] = j]
               /\ j.phase \in {"observed", "rebase_waiting", "recover_waiting"}
    <3>1. ASSUME NEW b \in Batch, Observe(p, b)
          PROVE  /\ job' = [job EXCEPT ![p] =
                       [IdleJob EXCEPT !.phase = "observed", !.id = Observation(b)]]
                 /\ [IdleJob EXCEPT !.phase = "observed", !.id = Observation(b)].phase
                      = "observed"
      BY <3>1 DEF Observe, Start, IdleJob
    <3>2. ASSUME NEW k \in block, RequestRebase(p, k)
          PROVE  /\ job' = [job EXCEPT ![p] =
                       [IdleJob EXCEPT !.phase = "rebase_waiting", !.id = k.id,
                                       !.block = k.ticket]]
                 /\ [IdleJob EXCEPT !.phase = "rebase_waiting", !.id = k.id,
                                    !.block = k.ticket].phase = "rebase_waiting"
      BY <3>2 DEF RequestRebase, Start, IdleJob
    <3>3. ASSUME RequestRecovery(p)
          PROVE  /\ job' = [job EXCEPT ![p] =
                       [IdleJob EXCEPT !.phase = "recover_waiting"]]
                 /\ [IdleJob EXCEPT !.phase = "recover_waiting"].phase = "recover_waiting"
      BY <3>3 DEF RequestRecovery, Start, IdleJob
    <3>. QED
      BY <1>4, <3>1, <3>2, <3>3 DEF Call
  <2>3. job \in [Proc -> Job]
    BY <1>1 DEF TypeInv, TypeOK, StoreTypeOK
  <2>4. OnlyMoves(p)
        /\ job'[p].phase \in {"observed", "rebase_waiting", "recover_waiting"}
    BY <2>2, <2>3 DEF OnlyMoves
  <2>. QED
    BY <2>1, <2>4, FreeReady DEF RecoveryAction, ReadyPhase
<1>5. ASSUME NEW k \in block, Review(k) PROVE OutsideStep
  <2>1. /\ resolution' = resolution \cup {[block |-> k.ticket, kind |-> "REVIEWED"]}
        /\ BasisKept /\ UNCHANGED <<lastEvent, block, ticket, market, job>>
    BY <1>5 DEF Review, ResolveBlock, UnchangedApplication, BasisKept, storeVars
  <2>2. \A r \in resolution' \ resolution : r.kind = "REVIEWED"
    BY <2>1
  <2>3. ticket \in Nat
    BY <1>1 DEF TypeInv, TypeOK, LogTypeOK
  <2>4. \A p : KeepingStep(p)
    BY <2>1, <2>2, <2>3 DEF KeepingStep
  <2>. QED
    BY <2>1, <2>4 DEF OutsideStep
<1>6. CASE UNCHANGED vars
  <2>1. UNCHANGED <<market, job>> /\ UNCHANGED logVars
    BY <1>6 DEF vars, storeVars
  <2>2. \A p : KeepingStep(p)
    BY <1>1, <2>1, KeepingFacts
  <2>. QED
    BY <2>1, <2>2 DEF OutsideStep
<1>. QED
  BY <1>2, <1>3, <1>4, <1>5, <1>6 DEF Next, EditOutOfBand, Faultless

\* RecoveryInv is inductive relative to MarketInv.
LEMMA RecoveryNext ==
    ASSUME MarketInv, RecoveryInv, Faultless, [Next]_vars
    PROVE  RecoveryInv'
<1>1. /\ TypeInv /\ CoreInv /\ LogReady /\ TypeInv'
      /\ \A q \in Proc : JobConsistent(q) /\ JobReady(q)
  BY NextType DEF MarketInv, CoreInv, JobsConsistent, RecoveryInv
<1>2. ASSUME OutsideStep PROVE RecoveryInv'
  <2>1. PICK p : KeepingStep(p)
    BY <1>2 DEF OutsideStep
  <2>2. \A q \in Proc : Rests(q)
    BY <1>1, <1>2 DEF Rests, OutsideStep
  <2>3. LogReady'
    BY <1>1, <2>1, KeepingLog
  <2>4. market' = market
    BY <1>2 DEF OutsideStep
  <2>5. \A q \in Proc : JobReady(q)'
    BY <1>1, <2>1, <2>2, <2>4, KeepingJob
  <2>. QED
    BY <2>3, <2>5 DEF RecoveryInv
<1>. QED
  BY <1>1, <1>2, EveryRecoveryStep, RecoveryStep

\* RecoveryInv holds initially.
LEMMA RecoveryInit ==
    ASSUME Init
    PROVE  RecoveryInv
<1>1. /\ block = {} /\ receipt = {} /\ rebasedBlock = {}
      /\ \A s \in Session : owner[s] = NoOwner
      /\ \A i \in Id : lastEvent[i].kind = "NONE"
  BY DEF Init, LogInit, NoEvent
<1>2. OpenIntents = {}
  BY <1>1 DEF OpenIntents, IntentKind
<1>3. LogReady
  BY <1>1, <1>2 DEF LogReady, BlocksTicketed, OwnedAreVersioned, RebasedAreResolved,
     IntentsUnapplied, ClaimsAreCurrent, RevisionsDisagree, AppliedHasNoOpenRevision,
     ReceiptsMatch, Unresolved
<1>4. \A p \in Proc : job[p].phase = "idle"
  BY DEF Init, IdleJob
<1>5. \A p \in Proc : JobReady(p)
  BY <1>4 DEF JobReady
<1>. QED
  BY <1>3, <1>5 DEF RecoveryInv

-----------------------------------------------------------------------------
(* The theorems *)

Recoverable == MarketInv /\ RecoveryInv

\* Whatever the processes do and wherever they die, if no write fails and
\* nothing else writes market.db, both invariants hold.
THEOREM RecoveryInvHolds ==
    ASSUME Faultless PROVE Spec => []Recoverable
<1>1. Init => Recoverable
  BY InvInit, RecoveryInit DEF Recoverable
<1>2. Recoverable /\ [Next]_vars => Recoverable'
  BY InvNext, RecoveryNext DEF Recoverable
<1>. QED
  BY <1>1, <1>2, PTL DEF Spec

\* An open intent of an append claims sessions nobody owns.
LEMMA ClaimedAreFree ==
    ASSUME Recoverable, NEW i \in OpenIntents, lastEvent[i].kind = "INTENT"
    PROVE  /\ lastEvent[i].claim.sessions # {}
           /\ \A s \in lastEvent[i].claim.sessions : owner[s] = NoOwner
<1>. DEFINE S == lastEvent[i].claim.sessions
<1>1. i \in Id /\ content \in History /\ AppendClaimed(i) /\ OwnedAreVersioned
  BY DEF Recoverable, MarketInv, RecoveryInv, LogReady, IntentsExplainMarket,
         TypeInv, TypeOK, LogTypeOK, OpenIntents
<1>2. S # {} /\ S \subseteq NewSessions(content, i.batch)
  BY <1>1 DEF AppendClaimed
<1>3. \A s \in S : s \in Session /\ content[s] = NoRow
  BY <1>1, <1>2, NewAreBehind
<1>4. \A s \in S : owner[s] = NoOwner
  BY <1>1, <1>3 DEF OwnedAreVersioned, Stored
<1>. QED
  BY <1>2, <1>4

\* The open intent of a rebase can be recorded.
LEMMA ClaimedCanBeRebased ==
    ASSUME Recoverable, NEW i \in OpenIntents, lastEvent[i].kind = "REBASE_INTENT"
    PROVE  LET e == lastEvent[i]
           IN  /\ e.claim.block \notin Resolved /\ e.claim.block \notin rebasedBlock
               /\ e.claim.on = version /\ i \notin receipt
               /\ market \in {e.claim.pre, e.claim.post}
<1>1. i \in Id /\ RewriteClaimed(i) /\ PlanIsCurrent(i, lastEvent[i].claim)
      /\ i \notin receipt /\ RebasedAreResolved
  BY DEF Recoverable, MarketInv, RecoveryInv, LogReady, IntentsExplainMarket,
         ClaimsAreCurrent, IntentsUnapplied, OpenIntents
<1>. QED
  BY <1>1 DEF RewriteClaimed, PlanIsCurrent, RebasedAreResolved

\* The process that committed a change can record it.
LEMMA CommittedCanBeRecorded ==
    ASSUME Recoverable, NEW p \in Proc
    PROVE  /\ At(p, "committed") =>
                job[p].id \in receipt \/ MayFinalize(job[p].id, job[p].final)
           /\ At(p, "rebase_committed") =>
                \/ job[p].claim.block \in rebasedBlock
                \/ MayRebase(job[p].id, job[p].claim, job[p].ticket)
<1>1. TypeInv /\ JobConsistent(p) /\ JobReady(p)
  BY DEF Recoverable, MarketInv, RecoveryInv, JobsConsistent
<1>2. At(p, "committed") \/ At(p, "rebase_committed") => job[p].id \in Id
  BY <1>1 DEF At, TypeInv, JobsIdentified
<1>3. ASSUME At(p, "committed"), job[p].id \notin receipt
      PROVE  MayFinalize(job[p].id, job[p].final)
  <2>1. /\ lastEvent[job[p].id].kind = "INTENT"
        /\ lastEvent[job[p].id].claim.sessions = job[p].final.sessions
        /\ job[p].final.bound = version
    BY <1>1, <1>3 DEF At, JobConsistent, JobReady, Claims, DecisionIsCurrent
  <2>2. job[p].id \in OpenIntents
    BY <1>2, <1>3, <2>1 DEF OpenIntents, IntentKind
  <2>3. /\ job[p].final.sessions # {}
        /\ \A s \in job[p].final.sessions : owner[s] = NoOwner
    BY <2>1, <2>2, ClaimedAreFree
  <2>. QED
    BY <2>1, <2>3 DEF MayFinalize, IntentKind
<1>4. ASSUME At(p, "rebase_committed"), job[p].claim.block \notin rebasedBlock
      PROVE  MayRebase(job[p].id, job[p].claim, job[p].ticket)
  <2>1. lastEvent[job[p].id] = [kind |-> "REBASE_INTENT", ticket |-> job[p].ticket,
                                claim |-> job[p].claim]
    BY <1>1, <1>4 DEF At, JobReady
  <2>2. job[p].id \in OpenIntents
    BY <1>2, <1>4, <2>1 DEF OpenIntents, IntentKind
  <2>. QED
    BY <2>1, <2>2, ClaimedCanBeRebased DEF MayRebase
<1>. QED
  BY <1>3, <1>4

\* Once a change is committed, record_application and record_rebase never raise.
THEOREM CommittedIsFinalizable ==
    ASSUME Faultless PROVE Spec => []CommittedChangeIsFinalizable
<1>1. Recoverable => CommittedChangeIsFinalizable
  BY CommittedCanBeRecorded DEF CommittedChangeIsFinalizable
<1>. QED
  BY <1>1, RecoveryInvHolds, PTL

\* Recovery can settle whatever a dead process left.
LEMMA OrphanCanBeSettled ==
    ASSUME Recoverable, NEW i \in OpenIntents
    PROVE  LET e == lastEvent[i]
           IN  IF e.kind = "INTENT"
               THEN \/ RowsPresent(i) /\ Finalizes(i, Reconciled(e.claim.sessions, market))
                    \/ RowsAbsent(i)
               ELSE \/ market = e.claim.post /\ Rebases(i, e.claim, e.ticket)
                    \/ market = e.claim.pre
<1>0. PICK e : e = lastEvent[i]
  OBVIOUS
<1>1. CASE e.kind = "INTENT"
  <2>. DEFINE S == e.claim.sessions
              w == Write(content, i.batch, S)
  <2>1. i \in Id /\ content \in History /\ AppendClaimed(i) /\ i \notin receipt
    BY <1>0, <1>1
       DEF Recoverable, MarketInv, RecoveryInv, LogReady, IntentsExplainMarket,
           IntentsUnapplied, TypeInv, TypeOK, LogTypeOK, OpenIntents
  <2>2. S # {} /\ S \subseteq NewSessions(content, i.batch) /\ market \in {content, w}
    BY <1>0, <2>1 DEF AppendClaimed
  <2>3. \A s \in S : s \in Session /\ content[s] = NoRow /\ w[s] = i.batch.rows[s]
    <3>1. content \in History /\ S # {} /\ S \subseteq NewSessions(content, i.batch)
      BY <2>1, <2>2
    <3>2. \A s \in S : content[s] = NoRow /\ w[s] = i.batch.rows[s]
      BY <3>1, AppendFacts
    <3>3. \A s \in S : s \in Session
      BY <3>1, NewAreBehind
    <3>. QED
      BY <3>2, <3>3
  <2>4. CASE market = content
    BY <1>0, <1>1, <2>3, <2>4 DEF RowsAbsent
  <2>5. CASE market = w
    <3>1. RowsPresent(i)
      BY <1>0, <2>2, <2>3, <2>5 DEF RowsPresent
    <3>2. \A s \in S : owner[s] = NoOwner
      BY <1>0, <1>1, ClaimedAreFree
    <3>3. Reconciled(S, market).sessions = S /\ Reconciled(S, market).decision = 0
      BY DEF Reconciled
    <3>4. Finalizes(i, Reconciled(S, market))
      BY <1>0, <1>1, <2>1, <2>2, <3>2, <3>3 DEF Finalizes, MayFinalize, IntentKind
    <3>. QED
      BY <1>0, <1>1, <3>1, <3>4
  <2>. QED
    BY <2>2, <2>4, <2>5
<1>2. CASE e.kind = "REBASE_INTENT"
  BY <1>0, <1>2, ClaimedCanBeRebased DEF Rebases, MayRebase
<1>. QED
  BY <1>0, <1>1, <1>2 DEF OpenIntents, IntentKind

\* Whatever a dead process left committed, the next one can finalize it.
THEOREM OrphanedIsRecoverable ==
    ASSUME Faultless PROVE Spec => []OrphanedChangeIsRecoverable
<1>1. Recoverable => OrphanedChangeIsRecoverable
  BY OrphanCanBeSettled DEF OrphanedChangeIsRecoverable
<1>. QED
  BY <1>1, RecoveryInvHolds, PTL

\* A receipt holds in the content, hence in the market, until a rebase.
LEMMA ReceiptsStayStored ==
    ASSUME Recoverable
    PROVE  AppliedRowsStayStored
<1>1. SUFFICES ASSUME rebasedBlock = {}, OpenRebases = {}, NEW i \in receipt
               PROVE  Matches(market, i.batch)
  BY DEF AppliedRowsStayStored
<1>2. /\ Matches(content, i.batch) /\ content \in History /\ i.batch \in Batch
      /\ TypeInv /\ CoreInv
  BY <1>1 DEF Recoverable, MarketInv, CoreInv, RecoveryInv, LogReady, ReceiptsMatch,
              TypeInv, TypeOK, LogTypeOK, Id
<1>3. CASE market = content
  BY <1>2, <1>3
<1>4. CASE market # content
  <2>1. PICK j \in OpenIntents : TRUE
    BY <1>2, <1>4 DEF CoreInv, SettledMarketIsVersioned
  <2>2. lastEvent[j].kind = "INTENT" /\ j \in Id
    BY <1>1, <2>1 DEF OpenIntents, OpenRebases, IntentKind
  <2>3. AppendClaimed(j)
    BY <1>2, <2>2 DEF CoreInv, IntentsExplainMarket
  <2>. QED
    BY <1>2, <1>4, <2>3, AppendKeepsComparisons DEF AppendClaimed
<1>. QED
  BY <1>3, <1>4

\* An applied receipt may be reused: its rows stay stored as observed.
THEOREM ReceiptsStayTrue ==
    ASSUME Faultless PROVE Spec => []AppliedRowsStayStored
<1>1. Recoverable => AppliedRowsStayStored
  BY ReceiptsStayStored
<1>. QED
  BY <1>1, RecoveryInvHolds, PTL

\* No applied observation is still blocked, so no rebase is asked to apply one
\* again.
THEOREM AppliedIsNotBlocked ==
    ASSUME Faultless PROVE Spec => []AppliedHasNoOpenRevision
<1>1. Recoverable => AppliedHasNoOpenRevision
  BY DEF Recoverable, RecoveryInv, LogReady
<1>. QED
  BY <1>1, RecoveryInvHolds, PTL

\* Every step lifts blocks only by agreement.
LEMMA StepLiftsByAgreement ==
    ASSUME Recoverable, Faultless, [Next]_vars
    PROVE  [\A r \in resolution' \ resolution :
              r.kind = "ACCEPTED" =>
                \E k \in block, i \in receipt' \ receipt :
                    /\ k.ticket = r.block
                    /\ k.affected # {}
                    /\ \A s \in k.affected : market[s] = i.batch.rows[s]]_resolution
<1>1. CASE OutsideStep
  BY <1>1 DEF OutsideStep, KeepingStep
<1>2. ASSUME NEW p \in Proc, RecoveryAction(p), NEW r \in resolution' \ resolution,
             r.kind = "ACCEPTED"
      PROVE  \E k \in block, i \in receipt' \ receipt :
                    /\ k.ticket = r.block
                    /\ k.affected # {}
                    /\ \A s \in k.affected : market[s] = i.batch.rows[s]
  <2>1. PICK i : ApplyingStep(p, i)
    BY <1>2 DEF RecoveryAction, KeepingStep, BlockingStep, CurrentClaimStep
  <2>2. PICK k \in block : /\ i \in receipt' \ receipt
                           /\ k.ticket = r.block /\ k.affected # {}
                           /\ \A s \in k.affected : market[s] = i.batch.rows[s]
    BY <1>2, <2>1 DEF ApplyingStep
  <2>. QED
    BY <2>2
<1>. QED
  BY <1>1, <1>2, EveryRecoveryStep DEF Recoverable

\* A block is lifted only by an observation that agrees with the market on
\* everything the block is about.
THEOREM BlocksAreLiftedByAgreement ==
    ASSUME Faultless PROVE Spec => BlockLiftedOnlyByAgreement
<1>1. Recoverable /\ [Next]_vars =>
        [\A r \in resolution' \ resolution :
              r.kind = "ACCEPTED" =>
                \E k \in block, i \in receipt' \ receipt :
                    /\ k.ticket = r.block
                    /\ k.affected # {}
                    /\ \A s \in k.affected : market[s] = i.batch.rows[s]]_resolution
  BY StepLiftsByAgreement
<1>. QED
  BY <1>1, RecoveryInvHolds, PTL DEF Spec, BlockLiftedOnlyByAgreement

-----------------------------------------------------------------------------
(* What is claimed, whatever fails and whoever edits market.db *)

\* A transaction of the log: nothing but an open intent becomes a version.
LogKeeps ==
    /\ OpenIntents = {} => UNCHANGED <<content, version>>
    /\ UNCHANGED <<content, version, rebasedBlock>> \/ version' # 0
    /\ UNCHANGED baseline

ClaimsNothing == LogKeeps /\ OpenIntents' \subseteq OpenIntents

\* p goes on with locals j: it writes under the lock only, it starts to compare
\* when nothing is open, and it has compared when the market is verified.
GoesOnWith(p, j) ==
    /\ job' = [job EXCEPT ![p] = j]
    /\ market' = market \/ job[p].phase \in LockedPhase
    /\ j.phase \in Comparing => OpenIntents' = {}
    /\ j.phase \in Compared => Verified(market) /\ UNCHANGED <<market, content>>

\* One step of p, which claims something only after it has compared.
ComparingStep(p) ==
    /\ LogKeeps
    /\ \/ OpenIntents' \subseteq OpenIntents
       \/ job[p].phase \in Compared /\ \E i : OpenIntents' = {i}
    /\ \E j : GoesOnWith(p, j)

\* A step of nobody: a review, an edit, or none.
ForeignStep ==
    /\ ClaimsNothing
    /\ job' = job
    /\ market' = market \/ lock = NoProc

\* A verified market is the latest version.
LEMMA VerifiedIsLatest ==
    ASSUME TypeInv, ComparingInv, Verified(market)
    PROVE  market = content
<1>1. /\ market \in History /\ baseline \in History
      /\ version \in Nat /\ \A s \in Session : s \in Nat
  BY SessionsAssumption DEF TypeInv, TypeOK, StoreTypeOK, LogTypeOK, Session
<1>2. CASE version > 0
  BY <1>2 DEF Verified, LineageIntact
<1>3. CASE version = 0
  <2>1. /\ content = baseline
        /\ \A s \in Session : Within(baseline, s) => market[s] = baseline[s]
        /\ \A s \in Stored(market) : Within(baseline, s)
    BY <1>3 DEF Verified, LineageIntact, BaselineIntact, ComparingInv
  <2>2. ASSUME NEW s \in Session PROVE market[s] = baseline[s]
    <3>1. CASE Within(baseline, s)
      BY <2>1, <3>1
    <3>2. CASE ~Within(baseline, s)
      <4>1. s \notin Stored(market)
        BY <2>1, <3>2
      <4>2. s \notin Stored(baseline)
        BY <1>1, <3>2 DEF Within
      <4>. QED
        BY <4>1, <4>2 DEF Stored
    <3>. QED
      BY <3>1, <3>2
  <2>. QED
    BY <1>1, <2>1, <2>2 DEF History
<1>. QED
  BY <1>1, <1>2, <1>3

\* A step of a process keeps the invariant: while somebody compares, nobody else
\* holds the lock.
LEMMA ComparingKept ==
    ASSUME TypeInv, ControlInv, ComparingInv, NEW p \in Proc, ComparingStep(p)
    PROVE  ComparingInv'
<1>1. /\ job \in [Proc -> Job]
      /\ Compared \subseteq Comparing /\ Comparing \subseteq LockedPhase
  BY DEF TypeInv, TypeOK, StoreTypeOK, Compared, Comparing, LockedPhase
<1>2. PICK j : GoesOnWith(p, j)
  BY DEF ComparingStep
<1>3. job'[p] = j /\ \A q \in Proc : q # p => job'[q] = job[q]
  BY <1>1, <1>2 DEF GoesOnWith
<1>4. OneOpenIntent'
  <2>1. \A i, k \in OpenIntents : i = k
    BY DEF ComparingInv, OneOpenIntent
  <2>2. OpenIntents' \subseteq OpenIntents \/ \E i : OpenIntents' = {i}
    BY DEF ComparingStep
  <2>3. \A i, k \in OpenIntents' : i = k
    BY <2>1, <2>2
  <2>. QED
    BY <2>3 DEF OneOpenIntent
<1>5. ASSUME NEW q \in Proc, q # p, job[q].phase \in Comparing
      PROVE  /\ OpenIntents = {} /\ OpenIntents' = {}
             /\ UNCHANGED <<market, content>>
  <2>1. OpenIntents = {}
    BY <1>5 DEF ComparingInv
  <2>2. lock = q
    BY <1>1, <1>5 DEF ControlInv, LockDiscipline
  <2>3. job[p].phase \notin LockedPhase
    BY <1>5, <2>2 DEF ControlInv, LockDiscipline
  <2>. QED
    BY <1>1, <1>2, <2>1, <2>3 DEF ComparingStep, LogKeeps, GoesOnWith
<1>6. ASSUME NEW q \in Proc, job'[q].phase \in Comparing PROVE OpenIntents' = {}
  BY <1>2, <1>3, <1>5, <1>6 DEF GoesOnWith
<1>7. ASSUME NEW q \in Proc, job'[q].phase \in Compared PROVE market' = content'
  <2>1. CASE q = p
    BY <1>2, <1>3, <1>7, <2>1, VerifiedIsLatest DEF GoesOnWith
  <2>2. CASE q # p
    <3>1. job[q].phase \in Compared
      BY <1>3, <1>7, <2>2
    <3>2. UNCHANGED <<market, content>>
      BY <1>1, <1>5, <2>2, <3>1
    <3>. QED
      BY <3>1, <3>2 DEF ComparingInv
  <2>. QED
    BY <2>1, <2>2
<1>8. version' = 0 => content' = baseline' /\ rebasedBlock' = {}
  BY DEF ComparingStep, LogKeeps, ComparingInv
<1>. QED
  BY <1>4, <1>6, <1>7, <1>8 DEF ComparingInv

\* So does every other one.
LEMMA ForeignKeeps ==
    ASSUME TypeInv, ControlInv, ComparingInv, ForeignStep
    PROVE  ComparingInv'
<1>1. /\ NoProc \notin Proc
      /\ Compared \subseteq Comparing /\ Comparing \subseteq LockedPhase
  BY ProcAssumption DEF Compared, Comparing, LockedPhase
<1>2. OneOpenIntent'
  BY DEF ForeignStep, ClaimsNothing, ComparingInv, OneOpenIntent
<1>3. ASSUME NEW q \in Proc, job[q].phase \in Comparing
      PROVE  /\ OpenIntents' = {} /\ UNCHANGED <<market, content>>
  <2>1. OpenIntents = {} /\ lock = q
    BY <1>1, <1>3 DEF ComparingInv, ControlInv, LockDiscipline
  <2>. QED
    BY <1>1, <2>1 DEF ForeignStep, ClaimsNothing, LogKeeps
<1>4. job' = job
  BY DEF ForeignStep
<1>5. \A q \in Proc : job'[q].phase \in Comparing => OpenIntents' = {}
  BY <1>3, <1>4
<1>6. \A q \in Proc : job'[q].phase \in Compared => market' = content'
  BY <1>1, <1>3, <1>4 DEF ComparingInv
<1>7. version' = 0 => content' = baseline' /\ rebasedBlock' = {}
  BY DEF ForeignStep, ClaimsNothing, LogKeeps, ComparingInv
<1>. QED
  BY <1>2, <1>5, <1>6, <1>7 DEF ComparingInv

\* What each transaction of the log does.
LEMMA LogTransactions ==
    ASSUME TypeInv, NEW i \in Id
    PROVE  /\ UNCHANGED logVars => ClaimsNothing
           /\ PersistObservation(i) => ClaimsNothing
           /\ RecordDecision(i) => ClaimsNothing
           /\ \A r, S, w : RecordBlock(i, r, S, w) => ClaimsNothing
           /\ AbandonIntent(i) => ClaimsNothing
           /\ SupersedeOthers(i) => ClaimsNothing
           /\ \A f : RecordApplication(i, f) => ClaimsNothing
           /\ \A c, t : RecordRebase(i, c, t) => ClaimsNothing
           /\ \A S : RecordIntent(i, S) => LogKeeps
           /\ \A c : RecordRebaseIntent(i, c) => LogKeeps
<1>1. lastEvent \in [Id -> Event] /\ version \in Nat
  BY DEF TypeInv, TypeOK, LogTypeOK
<1>2. ASSUME NEW kind, NEW t, NEW c, SetEvent(i, kind, t, c), kind \notin IntentKind
      PROVE  OpenIntents' \subseteq OpenIntents
  BY <1>1, <1>2 DEF SetEvent, OpenIntents
<1>3. UNCHANGED logVars => ClaimsNothing
  BY DEF logVars, ClaimsNothing, LogKeeps, OpenIntents
<1>4. UnchangedApplication /\ UNCHANGED baseline => LogKeeps
  BY DEF UnchangedApplication, LogKeeps
<1>5. PersistObservation(i) => ClaimsNothing
  BY <1>2, <1>4 DEF PersistObservation, ClaimsNothing, OpenIntents, IntentKind
<1>6. RecordDecision(i) => ClaimsNothing
  BY <1>2, <1>4 DEF RecordDecision, ClaimsNothing, IntentKind
<1>7. \A r, S, w : RecordBlock(i, r, S, w) => ClaimsNothing
  BY <1>2, <1>4 DEF RecordBlock, ClaimsNothing, OpenIntents, IntentKind
<1>8. AbandonIntent(i) => ClaimsNothing
  BY <1>2, <1>4 DEF AbandonIntent, ClaimsNothing, IntentKind
<1>9. SupersedeOthers(i) => ClaimsNothing
  BY <1>1, <1>4 DEF SupersedeOthers, ClaimsNothing, OpenIntents, IntentKind, NoEvent
<1>10. ASSUME NEW f, RecordApplication(i, f) PROVE ClaimsNothing
  <2>1. CASE ~Finalizes(i, f)
    BY <1>3, <1>10, <2>1 DEF RecordApplication
  <2>2. CASE Finalizes(i, f)
    <3>1. SetEvent(i, "APPLIED", 0, NoClaim) /\ UNCHANGED <<baseline, rebasedBlock>>
      BY <1>10, <2>2 DEF RecordApplication
    <3>2. CASE f.sessions = {}
      BY <1>2, <1>10, <2>2, <3>1, <3>2
         DEF RecordApplication, ClaimsNothing, LogKeeps, IntentKind
    <3>3. CASE f.sessions # {}
      <4>1. i \in OpenIntents
        BY <2>2, <3>3 DEF Finalizes, MayFinalize, OpenIntents
      <4>2. version' # 0
        BY <1>1, <1>10, <2>2, <3>3 DEF RecordApplication
      <4>. QED
        BY <1>2, <3>1, <4>1, <4>2 DEF ClaimsNothing, LogKeeps, IntentKind
    <3>. QED
      BY <3>2, <3>3
  <2>. QED
    BY <2>1, <2>2
<1>11. ASSUME NEW c, NEW t, RecordRebase(i, c, t) PROVE ClaimsNothing
  <2>1. CASE ~Rebases(i, c, t)
    BY <1>3, <1>11, <2>1 DEF RecordRebase
  <2>2. CASE Rebases(i, c, t)
    <3>1. SetEvent(i, "APPLIED", 0, NoClaim) /\ UNCHANGED baseline /\ version' # 0
      BY <1>1, <1>11, <2>2 DEF RecordRebase
    <3>2. i \in OpenIntents
      BY <2>2 DEF Rebases, MayRebase, OpenIntents, IntentKind
    <3>. QED
      BY <1>2, <3>1, <3>2 DEF ClaimsNothing, LogKeeps, IntentKind
  <2>. QED
    BY <2>1, <2>2
<1>12. \A S : RecordIntent(i, S) => LogKeeps
  BY <1>4 DEF RecordIntent
<1>13. \A c : RecordRebaseIntent(i, c) => LogKeeps
  BY <1>4 DEF RecordRebaseIntent
<1>. QED
  BY <1>3, <1>5, <1>6, <1>7, <1>8, <1>9, <1>10, <1>11, <1>12, <1>13

\* A claim opens one intent.
LEMMA ClaimsOpenOne ==
    ASSUME TypeInv, NEW i \in Id, OpenIntents = {}
    PROVE  /\ \A S : RecordIntent(i, S) => OpenIntents' = {i}
           /\ \A c : RecordRebaseIntent(i, c) => OpenIntents' = {i}
<1>1. lastEvent \in [Id -> Event]
  BY DEF TypeInv, TypeOK, LogTypeOK
<1>2. ASSUME NEW kind \in IntentKind, NEW t, NEW c, SetEvent(i, kind, t, c)
      PROVE  OpenIntents' = {i}
  BY <1>1, <1>2 DEF SetEvent, OpenIntents
<1>. QED
  BY <1>2 DEF RecordIntent, RecordRebaseIntent, IntentKind

\* A process moves on to a phase in which it does not compare, or starts to,
LEMMA GotoCompares ==
    ASSUME TypeInv, NEW p \in Proc, NEW ph, Goto(p, ph),
           market' = market \/ job[p].phase \in LockedPhase,
           ph \notin Compared, ph = "comparing" => OpenIntents' = {}
    PROVE  \E j : GoesOnWith(p, j)
<1>1. PICK j : j = [job[p] EXCEPT !.phase = ph]
  OBVIOUS
<1>2. j.phase = ph
  BY <1>1 DEF TypeInv, TypeOK, StoreTypeOK, Job
<1>3. job' = [job EXCEPT ![p] = j]
  BY <1>1 DEF Goto
<1>. QED
  BY <1>2, <1>3 DEF GoesOnWith, Comparing, Compared

\* returns,
LEMMA FinishCompares ==
    ASSUME NEW p \in Proc, Finish(p), market' = market
    PROVE  \E j : GoesOnWith(p, j)
<1>1. IdleJob.phase = "idle"
  BY DEF IdleJob
<1>. QED
  BY <1>1 DEF GoesOnWith, Finish, Comparing, Compared

\* or stays where it is.
LEMMA StayCompares ==
    ASSUME TypeInv, NEW p \in Proc, UNCHANGED storeVars, job[p].phase \notin Comparing
    PROVE  \E j : GoesOnWith(p, j)
<1>1. job' = [job EXCEPT ![p] = job[p]]
  BY DEF storeVars, TypeInv, TypeOK, StoreTypeOK
<1>2. market' = market
  BY DEF storeVars
<1>3. job[p].phase \notin Compared
  BY DEF Comparing, Compared
<1>. QED
  BY <1>1, <1>2, <1>3 DEF GoesOnWith

\* What such a step has to show of the log.
LEMMA ClaimsNothingCompares ==
    ASSUME NEW p, ClaimsNothing, \E j : GoesOnWith(p, j)
    PROVE  ComparingStep(p)
  BY DEF ClaimsNothing, ComparingStep

\* A recovery settles an intent.
LEMMA SettleCompares ==
    ASSUME TypeInv, NEW p \in Proc, NEW i \in Id, SettleAppend(p, i) \/ SettleRebase(p, i),
           job[p].phase \notin Comparing
    PROVE  ComparingStep(p)
<1>1. ClaimsNothing
  BY LogTransactions DEF SettleAppend, SettleRebase
<1>2. UNCHANGED storeVars \/ FinishLocked(p)
  BY DEF SettleAppend, SettleRebase
<1>. QED
  BY <1>1, <1>2, StayCompares, FinishCompares, ClaimsNothingCompares DEF FinishLocked

\* The steps of an admission claim only what they have compared.
LEMMA AdmissionCompares ==
    ASSUME TypeInv, ComparingInv, NEW p \in Proc, Admission(p)
    PROVE  ComparingStep(p)
<1>. USE DEF At
<1>1. job[p].phase \notin NoIdPhase => job[p].id \in Id
  BY IdentifiedJob DEF TypeInv, TypeOK, StoreTypeOK, JobsOK
<1>10. CASE ReuseReceipt(p)
  BY <1>10, LogTransactions, MaxVersionAssumption, FinishCompares, ClaimsNothingCompares, <1>1
     DEF ReuseReceipt, LockedPhase, NoIdPhase
<1>11. CASE InvalidReceipt(p) \/ NoReceipt(p)
  <2>1. ClaimsNothing
    BY <1>1, <1>11, LogTransactions DEF InvalidReceipt, NoReceipt, NoIdPhase
  <2>2. \E j : GoesOnWith(p, j)
    BY <1>11, GotoCompares
       DEF InvalidReceipt, NoReceipt, LockedPhase, Compared
  <2>. QED
    BY <2>1, <2>2, ClaimsNothingCompares
<1>12. CASE BindReadmission(p)
  <2>1. ClaimsNothing
    BY <1>1, <1>12, LogTransactions DEF BindReadmission, NoIdPhase
  <2>2. PICK j : j = [job[p] EXCEPT !.phase = "readmitted", !.id.basis = version + 1]
    OBVIOUS
  <2>3. j.phase = "readmitted"
    BY <2>2 DEF TypeInv, TypeOK, StoreTypeOK, Job
  <2>4. /\ job' = [job EXCEPT ![p] = j] /\ market' = market
        /\ job[p].phase = "readmitting"
    BY <1>12, <2>2 DEF BindReadmission
  <2>5. GoesOnWith(p, j)
    BY <2>3, <2>4 DEF GoesOnWith, Comparing, Compared
  <2>. QED
    BY <2>1, <2>5, ClaimsNothingCompares
<1>13. CASE PersistReadmission(p)
  <2>1. ClaimsNothing
    BY <1>1, <1>13, LogTransactions DEF PersistReadmission, NoIdPhase
  <2>2. \E j : GoesOnWith(p, j)
    BY <1>13, GotoCompares DEF PersistReadmission, LockedPhase, Compared
  <2>. QED
    BY <2>1, <2>2, ClaimsNothingCompares
<1>14. CASE Lock(p)
  <2>1. ClaimsNothing
    BY <1>1, <1>14, LogTransactions DEF Lock, AcquireLock, NoIdPhase
  <2>2. \E j : GoesOnWith(p, j)
    BY <1>14, GotoCompares DEF Lock, AcquireLock, LockedPhase, Compared
  <2>. QED
    BY <2>1, <2>2, ClaimsNothingCompares
<1>15. CASE \E i \in OpenIntents : Settle(p, i)
  BY <1>15, SettleCompares DEF Settle, OpenIntents, Comparing
<1>16. CASE \E i \in OpenIntents : BlockAmbiguous(p, i)
  <2>1. PICK i : BlockAmbiguous(p, i)
    BY <1>16
  <2>2. ClaimsNothing
    BY <1>1, <2>1, LogTransactions DEF BlockAmbiguous, NoIdPhase
  <2>3. Finish(p) /\ market' = market
    BY <2>1 DEF BlockAmbiguous, FinishLocked
  <2>. QED
    BY <2>2, <2>3, FinishCompares, ClaimsNothingCompares
<1>17. CASE Recovered(p) \/ BlockMismatch(p) \/ BlockRevision(p) \/ FinalizeNoOp(p)
  <2>1. ClaimsNothing
    BY <1>1, <1>17, LogTransactions
       DEF Recovered, BlockMismatch, BlockRevision, FinalizeNoOp, NoIdPhase
  <2>2. Finish(p) /\ market' = market
    BY <1>17 DEF Recovered, BlockMismatch, BlockRevision, FinalizeNoOp, FinishLocked
  <2>. QED
    BY <2>1, <2>2, FinishCompares, ClaimsNothingCompares
<1>18. CASE Supersede(p)
  <2>1. ClaimsNothing
    BY <1>1, <1>18, LogTransactions DEF Supersede, NoIdPhase
  <2>2. OpenIntents' = {}
    BY <1>18, <2>1 DEF Supersede, ClaimsNothing
  <2>3. \E j : GoesOnWith(p, j)
    BY <1>18, <2>2, GotoCompares DEF Supersede, LockedPhase, Compared
  <2>. QED
    BY <2>1, <2>3, ClaimsNothingCompares
<1>19. CASE Decide(p)
  <2>1. ClaimsNothing
    BY <1>1, <1>19, LogTransactions DEF Decide, NoIdPhase
  <2>2. OpenIntents = {} /\ job[p].phase = "comparing"
    BY <1>19 DEF Decide, ComparingInv, Comparing
  <2>3. OpenIntents' = {} /\ UNCHANGED content
    BY <2>1, <2>2 DEF ClaimsNothing, LogKeeps
  <2>4. PICK f : job' = [job EXCEPT ![p].phase = "decided", ![p].final = f]
    BY <1>19 DEF Decide
  <2>5. PICK j : j = [job[p] EXCEPT !.phase = "decided", !.final = f]
    OBVIOUS
  <2>6. j.phase = "decided" /\ job' = [job EXCEPT ![p] = j]
    BY <2>4, <2>5 DEF TypeInv, TypeOK, StoreTypeOK, Job
  <2>7. Verified(market) /\ market' = market
    BY <1>19 DEF Decide
  <2>8. GoesOnWith(p, j)
    BY <2>2, <2>3, <2>6, <2>7 DEF GoesOnWith, Comparing, Compared
  <2>. QED
    BY <2>1, <2>8, ClaimsNothingCompares
<1>20. CASE ClaimSessions(p)
  <2>1. LogKeeps /\ job[p].phase \in Compared /\ \E i : OpenIntents' = {i}
    BY <1>1, <1>20, LogTransactions, ClaimsOpenOne
       DEF ClaimSessions, NoIdPhase, Compared, Comparing, ComparingInv
  <2>2. \E j : GoesOnWith(p, j)
    BY <1>20, GotoCompares DEF ClaimSessions, LockedPhase, Compared
  <2>. QED
    BY <2>1, <2>2 DEF ComparingStep
<1>21. CASE AppendRows(p) \/ AppendFails(p)
  <2>1. ClaimsNothing
    BY <1>1, <1>21, LogTransactions DEF AppendRows, AppendFails, NoIdPhase
  <2>2. \E j : GoesOnWith(p, j)
    BY <1>21, GotoCompares
       DEF AppendRows, AppendFails, LockedPhase, Compared
  <2>. QED
    BY <2>1, <2>2, ClaimsNothingCompares
<1>22. CASE FinalizeAppend(p) \/ AbandonAfterRollback(p)
  <2>1. ClaimsNothing
    BY <1>1, <1>22, LogTransactions DEF FinalizeAppend, AbandonAfterRollback, NoIdPhase
  <2>2. \E j : GoesOnWith(p, j)
    BY <1>22, FinishCompares DEF FinalizeAppend, AbandonAfterRollback, LockedPhase
  <2>. QED
    BY <2>1, <2>2, ClaimsNothingCompares
<1>. QED
  BY <1>10, <1>11, <1>12, <1>13, <1>14, <1>15, <1>16, <1>17, <1>18, <1>19, <1>20,
     <1>21, <1>22 DEF Admission

\* So do the steps of a rebase or a recovery.
LEMMA ReviewedCompares ==
    ASSUME TypeInv, ComparingInv, NEW p \in Proc, Reviewed(p)
    PROVE  ComparingStep(p)
<1>. USE DEF At
<1>1. job[p].phase \notin NoIdPhase => job[p].id \in Id
  BY IdentifiedJob DEF TypeInv, TypeOK, StoreTypeOK, JobsOK
<1>2. UNCHANGED logVars => ClaimsNothing
  BY DEF logVars, ClaimsNothing, LogKeeps, OpenIntents
<1>10. CASE \E k \in block : PlanRebase(p, k)
  <2>1. PICK k \in block : PlanRebase(p, k)
    BY <1>10
  <2>2. ClaimsNothing /\ OpenIntents = {} /\ Verified(market)
    BY <1>2, <2>1 DEF PlanRebase, Eligible
  <2>3. OpenIntents' = {} /\ UNCHANGED content
    BY <2>2 DEF ClaimsNothing, LogKeeps
  <2>4. PICK j : j = [job[p] EXCEPT !.phase = "rebase_planned", !.claim = RebaseClaim(k)]
    OBVIOUS
  <2>5. j.phase = "rebase_planned"
    BY <2>4 DEF TypeInv, TypeOK, StoreTypeOK, Job
  <2>6. /\ job' = [job EXCEPT ![p] = j] /\ market' = market
        /\ job[p].phase = "rebase_locked"
    BY <2>1, <2>4 DEF PlanRebase
  <2>7. GoesOnWith(p, j)
    BY <2>2, <2>3, <2>5, <2>6 DEF GoesOnWith, Comparing, Compared
  <2>. QED
    BY <2>2, <2>7, ClaimsNothingCompares
<1>11. CASE LockRebase(p) \/ LockRecovery(p)
  <2>1. ClaimsNothing
    BY <1>2, <1>11 DEF LockRebase, LockRecovery, AcquireLock
  <2>2. \E j : GoesOnWith(p, j)
    BY <1>11, GotoCompares
       DEF LockRebase, LockRecovery, AcquireLock, LockedPhase, Compared
  <2>. QED
    BY <2>1, <2>2, ClaimsNothingCompares
<1>12. CASE RefuseRebase(p) \/ ClaimRefused(p) \/ FinishRecovery(p)
  <2>1. ClaimsNothing
    BY <1>2, <1>12 DEF RefuseRebase, ClaimRefused, FinishRecovery
  <2>2. Finish(p) /\ market' = market
    BY <1>12 DEF RefuseRebase, ClaimRefused, FinishRecovery, FinishLocked
  <2>. QED
    BY <2>1, <2>2, FinishCompares, ClaimsNothingCompares
<1>13. CASE \E i \in OpenRebases : RebaseSettle(p, i) \/ RecoverySettle(p, i)
  BY <1>13, SettleCompares DEF RebaseSettle, RecoverySettle, OpenRebases, Comparing
<1>14. CASE ClaimBlock(p)
  <2>1. LogKeeps /\ job[p].phase \in Compared /\ \E i : OpenIntents' = {i}
    BY <1>1, <1>14, LogTransactions, ClaimsOpenOne
       DEF ClaimBlock, NoIdPhase, Compared, Comparing, ComparingInv
  <2>2. PICK j : j = [job[p] EXCEPT !.phase = "rebase_claimed", !.ticket = ticket]
    OBVIOUS
  <2>3. j.phase = "rebase_claimed"
    BY <2>2 DEF TypeInv, TypeOK, StoreTypeOK, Job
  <2>4. /\ job' = [job EXCEPT ![p] = j] /\ market' = market
        /\ job[p].phase = "rebase_planned"
    BY <1>14, <2>2 DEF ClaimBlock
  <2>5. GoesOnWith(p, j)
    BY <2>3, <2>4 DEF GoesOnWith, Comparing, Compared
  <2>. QED
    BY <2>1, <2>5 DEF ComparingStep
<1>15. CASE RewriteRows(p) \/ RewriteFails(p)
  <2>1. ClaimsNothing
    BY <1>2, <1>15 DEF RewriteRows, RewriteFails
  <2>2. \E j : GoesOnWith(p, j)
    BY <1>15, GotoCompares
       DEF RewriteRows, RewriteFails, LockedPhase, Compared
  <2>. QED
    BY <2>1, <2>2, ClaimsNothingCompares
<1>16. CASE FinalizeRebase(p)
  <2>1. ClaimsNothing
    BY <1>1, <1>16, LogTransactions DEF FinalizeRebase, NoIdPhase
  <2>2. \E j : GoesOnWith(p, j)
    BY <1>16, FinishCompares DEF FinalizeRebase, LockedPhase
  <2>. QED
    BY <2>1, <2>2, ClaimsNothingCompares
<1>. QED
  BY <1>10, <1>11, <1>12, <1>13, <1>14, <1>15, <1>16 DEF Reviewed

\* Every step is one of a process or a foreign one.
LEMMA EveryStepCompares ==
    ASSUME TypeInv, ComparingInv, [Next]_vars
    PROVE  ForeignStep \/ \E p \in Proc : ComparingStep(p)
<1>1. UNCHANGED logVars => ClaimsNothing
  BY DEF logVars, ClaimsNothing, LogKeeps, OpenIntents
<1>2. ASSUME NEW p \in Proc, Progress(p) PROVE ComparingStep(p)
  BY <1>2, AdmissionCompares, ReviewedCompares DEF Progress
<1>3. ASSUME NEW p \in Proc, Crash(p) PROVE ComparingStep(p)
  BY <1>1, <1>3, FinishCompares, ClaimsNothingCompares DEF Crash
<1>4. ASSUME NEW p \in Proc, Call(p) PROVE ComparingStep(p)
  <2>1. /\ ClaimsNothing /\ market' = market
        /\ job[p].phase = "idle"
    <3>1. \A b \in Batch : Observation(b) \in Id
      BY MaxVersionAssumption DEF Observation, Id
    <3>. QED
      BY <1>1, <1>4, <3>1, LogTransactions
         DEF Call, Observe, RequestRebase, RequestRecovery, Start, At
  <2>2. \E j : /\ job' = [job EXCEPT ![p] = j]
               /\ j.phase \in {"observed", "rebase_waiting", "recover_waiting"}
    BY <1>4, CallStarts DEF Start
  <2>3. \E j : GoesOnWith(p, j)
    BY <2>1, <2>2 DEF GoesOnWith, Comparing, Compared
  <2>. QED
    BY <2>1, <2>3, ClaimsNothingCompares
<1>5. ASSUME NEW k \in block, Review(k) PROVE ForeignStep
  BY <1>5 DEF Review, ResolveBlock, UnchangedApplication, ForeignStep, ClaimsNothing,
              LogKeeps, OpenIntents, storeVars
<1>6. ASSUME NEW h, EditOutOfBand(h) PROVE ForeignStep
  BY <1>1, <1>6 DEF EditOutOfBand, ForeignStep
<1>7. CASE UNCHANGED vars
  BY <1>1, <1>7 DEF vars, storeVars, ForeignStep
<1>. QED
  BY <1>2, <1>3, <1>4, <1>5, <1>6, <1>7 DEF Next

\* So the invariant holds in every state.
LEMMA ComparingInvHolds ==
    Spec => [](TypeInv /\ ControlInv /\ ComparingInv)
<1>1. ASSUME Init PROVE TypeInv /\ ControlInv /\ ComparingInv
  <2>1. \A p \in Proc : job[p].phase = "idle" /\ job[p].ticket = 0 /\ lock # p
    BY <1>1, ProcAssumption DEF Init, IdleJob
  <2>2. PICK h : LogInit(h)
    BY <1>1 DEF Init
  <2>3. /\ version = 0 /\ content = baseline /\ rebasedBlock = {} /\ ticket = 1
        /\ OpenIntents = {}
    BY <2>2 DEF LogInit, OpenIntents, NoEvent, IntentKind
  <2>4. ControlInv
    BY <2>1, <2>3 DEF ControlInv, LockDiscipline, LockedPhase, TicketsIssued, NothingFailed
  <2>5. ComparingInv
    BY <2>1, <2>3 DEF ComparingInv, OneOpenIntent, Comparing, Compared
  <2>. QED
    BY <1>1, <2>4, <2>5, InitType
<1>2. TypeInv /\ ControlInv /\ ComparingInv /\ [Next]_vars =>
        TypeInv' /\ ControlInv' /\ ComparingInv'
  BY NextType, ControlNext, EveryStepCompares, ComparingKept, ForeignKeeps
<1>. QED
  BY <1>1, <1>2, PTL DEF Spec

\* Recovery never finds two interrupted changes of the symbol to tell apart,
\* whatever fails, whoever dies and whoever edits market.db.
THEOREM OneIntentAtATime == Spec => []OneOpenIntent
<1>1. ComparingInv => OneOpenIntent
  BY DEF ComparingInv
<1>. QED
  BY <1>1, ComparingInvHolds, PTL

\* A market that is not what its latest version describes is never built upon,
\* whatever fails, whoever dies and whoever edits market.db.
THEOREM MismatchIsNeverClaimed == Spec => MismatchNeverClaimed
<1>1. TypeInv /\ ControlInv /\ ComparingInv /\ [Next]_vars =>
        [OpenIntents = {} /\ market # content => OpenIntents' = {}]_logVars
  <2>1. SUFFICES ASSUME TypeInv, ControlInv, ComparingInv, [Next]_vars,
                        OpenIntents = {}, market # content
                 PROVE  OpenIntents' = {}
    OBVIOUS
  <2>2. ForeignStep => OpenIntents' = {}
    BY <2>1 DEF ForeignStep, ClaimsNothing
  <2>3. \A p \in Proc : ComparingStep(p) => OpenIntents' = {}
    BY <2>1 DEF ComparingStep, ComparingInv
  <2>. QED
    BY <2>1, <2>2, <2>3, EveryStepCompares
<1>. QED
  BY <1>1, ComparingInvHolds, PTL DEF Spec, MismatchNeverClaimed

-----------------------------------------------------------------------------
(* The versions of the market, when writes fail *)

\* p writes what it has in hand.
WritingInHand(p) ==
    /\ UNCHANGED logVars
    /\ \/ /\ job[p].phase = "claimed"
          /\ market' = Write(market, job[p].id.batch, job[p].final.sessions)
       \/ /\ job[p].phase = "rebase_claimed"
          /\ market' = Write(market, job[p].id.batch, job[p].claim.sessions)

\* The open intent, if there is one, is withdrawn, wherever its change is.
DroppingStep ==
    /\ OpenIntents' = {}
    /\ UNCHANGED <<market, content, version, receipt, owner, baseline>>

HistoryStep(p) ==
    \/ QuietStep
    \/ DroppingStep
    \/ \E i : AttributingStep(i)
    \/ job[p].phase \in Compared /\ \E i : ClaimingStep(i)
    \/ WritingInHand(p)

BackedAction(p) == HistoryStep(p) /\ OnlyMoves(p) /\ JobBacked(p)'

BackedPhase == {"decided", "claimed", "committed", "rebase_planned", "rebase_claimed",
                "rebase_committed"}

\* The rest of the invariant, beside the types, the lock and what is compared.
Backing == ClaimInv /\ \A p \in Proc : JobBacked(p)

\* A phase without obligations is backed.
LEMMA FreeBacked ==
    ASSUME NEW q \in Proc, job'[q].phase \notin BackedPhase
    PROVE  JobBacked(q)'
BY DEF JobBacked, BackedPhase

\* So is a process that returns, or goes on to such a phase.
LEMMA MovedBacked ==
    ASSUME TypeInv, NEW p \in Proc
    PROVE  /\ Finish(p) => OnlyMoves(p) /\ JobBacked(p)'
           /\ \A ph : Goto(p, ph) /\ ph \notin BackedPhase =>
                OnlyMoves(p) /\ JobBacked(p)'
           /\ job' = job /\ job[p].phase \notin BackedPhase =>
                OnlyMoves(p) /\ JobBacked(p)'
<1>1. Finish(p) => job'[p].phase = "idle"
  BY DEF Finish, IdleJob, TypeInv, TypeOK, StoreTypeOK
<1>2. Finish(p) => JobBacked(p)'
  BY <1>1, FreeBacked DEF BackedPhase
<1>3. ASSUME NEW ph, Goto(p, ph), ph \notin BackedPhase PROVE JobBacked(p)'
  BY <1>3, Moved, FreeBacked
<1>4. job' = job /\ job[p].phase \notin BackedPhase => JobBacked(p)'
  BY FreeBacked
<1>5. job' = job => OnlyMoves(p)
  BY DEF OnlyMoves
<1>. QED
  BY <1>2, <1>3, <1>4, <1>5, Moved

\* The change a process has in hand is one.
LEMMA InHandChanges ==
    ASSUME TypeInv, NEW p \in Proc,
           NEW j, j = job[p], j.id \in Id
    PROVE  /\ AppendInHand(j) => /\ j.final.content = Write(content, j.id.batch, j.final.sessions)
                                 /\ j.final.content # content
                                 /\ \A s \in j.final.sessions :
                                        content[s] = NoRow /\ After(content, s)
           /\ RewriteInHand(j) => /\ j.claim.post = Write(content, j.id.batch, j.claim.sessions)
                                  /\ j.claim.post # content
                                  /\ Stored(j.claim.post) = Stored(content)
<1>1. content \in History /\ j.id.batch \in Batch
  BY DEF TypeInv, TypeOK, LogTypeOK, Id
<1>2. ASSUME AppendInHand(j)
      PROVE  /\ j.final.content = Write(content, j.id.batch, j.final.sessions)
             /\ j.final.content # content
             /\ \A s \in j.final.sessions : content[s] = NoRow /\ After(content, s)
  <2>1. /\ j.final.sessions = NewSessions(content, j.id.batch) /\ j.final.sessions # {}
        /\ j.final.content = Write(content, j.id.batch, j.final.sessions)
    BY <1>2 DEF AppendInHand, IsAppend
  <2>. QED
    BY <1>1, <2>1, AppendFacts
<1>3. ASSUME RewriteInHand(j)
      PROVE  /\ j.claim.post = Write(content, j.id.batch, j.claim.sessions)
             /\ j.claim.post # content
             /\ Stored(j.claim.post) = Stored(content)
  BY <1>3, RewriteFacts DEF RewriteInHand, IsRewrite
<1>. QED
  BY <1>2, <1>3

\* What a step leaves of the open intents and of what they explain,
LEMMA ClaimsKept ==
    ASSUME TypeInv, ControlInv, ComparingInv, Backing, NEW p \in Proc, HistoryStep(p)
    PROVE  ClaimInv'
<1>1. ClaimInv /\ JobBacked(p)
  BY DEF Backing
<1>2. CASE QuietStep
  BY <1>1, <1>2, QuietClaims
<1>3. CASE DroppingStep
  BY <1>1, <1>3
     DEF ClaimInv, OneOpenIntent, IntentsExplainMarket, VersionAttributed, DroppingStep,
         OpenIntents, IntentKind
<1>4. CASE \E i : AttributingStep(i)
  BY <1>4, AttributingCore, CoreClaims DEF CoreInv, ClaimInv
<1>5. CASE \E i : ClaimingStep(i)
  BY <1>1, <1>5, ClaimingClaims
<1>6. CASE WritingInHand(p)
  <2>1. PICK j : j = job[p]
    OBVIOUS
  <2>2. j.id \in Id
    BY <1>6, <2>1 DEF WritingInHand, TypeInv, JobsIdentified
  <2>3. UNCHANGED <<lastEvent, content, owner, baseline, resolution>>
    BY <1>6 DEF WritingInHand, logVars
  <2>4. OneOpenIntent' /\ VersionAttributed'
    BY <1>1, <2>3 DEF ClaimInv, OneOpenIntent, VersionAttributed, OpenIntents
  <2>5. CASE j.phase = "claimed"
    <3>1. AppendInHand(j) /\ market = content
      BY <1>1, <2>1, <2>5 DEF JobBacked
    <3>2. market' = Write(content, j.id.batch, j.final.sessions)
      BY <1>6, <2>1, <2>5, <3>1 DEF WritingInHand
    <3>3. ASSUME NEW i \in Id, lastEvent[i].kind \in IntentKind
          PROVE  /\ lastEvent[i].kind = "INTENT" /\ AppendClaimed(i)
                 /\ i = j.id /\ lastEvent[i].claim.sessions = j.final.sessions
      BY <1>1, <3>1, <3>3
         DEF AppendInHand, Claims, OpenIntents, ClaimInv, IntentsExplainMarket
    <3>4. ASSUME NEW i \in Id, lastEvent'[i].kind \in IntentKind
          PROVE  lastEvent'[i].kind = "INTENT" /\ AppendClaimed(i)'
      BY <2>3, <3>2, <3>3, <3>4 DEF AppendClaimed
    <3>5. IntentsExplainMarket'
      BY <3>4 DEF IntentsExplainMarket, IntentKind
    <3>. QED
      BY <2>4, <3>5 DEF ClaimInv
  <2>6. CASE j.phase = "rebase_claimed"
    <3>1. RewriteInHand(j) /\ market = content
      BY <1>1, <2>1, <2>6 DEF JobBacked
    <3>2. market' = Write(content, j.id.batch, j.claim.sessions)
      BY <1>6, <2>1, <2>6, <3>1 DEF WritingInHand
    <3>3. market' = j.claim.post
      BY <2>1, <2>2, <3>1, <3>2, InHandChanges
    <3>4. ASSUME NEW i \in Id, lastEvent[i].kind \in IntentKind
          PROVE  /\ lastEvent[i].kind = "REBASE_INTENT" /\ RewriteClaimed(i)
                 /\ lastEvent[i].claim = j.claim
      BY <1>1, <3>1, <3>4
         DEF RewriteInHand, OpenIntents, ClaimInv, IntentsExplainMarket
    <3>5. ASSUME NEW i \in Id, lastEvent'[i].kind \in IntentKind
          PROVE  lastEvent'[i].kind = "REBASE_INTENT" /\ RewriteClaimed(i)'
      BY <2>3, <3>3, <3>4, <3>5 DEF RewriteClaimed, IsRewrite, Resolved
    <3>6. IntentsExplainMarket'
      BY <3>5 DEF IntentsExplainMarket, IntentKind
    <3>. QED
      BY <2>4, <3>6 DEF ClaimInv
  <2>. QED
    BY <1>6, <2>1, <2>5, <2>6 DEF WritingInHand
<1>. QED
  BY <1>2, <1>3, <1>4, <1>5, <1>6 DEF HistoryStep

\* A step that settles nothing leaves a process it does not move with what it has in hand,
LEMMA QuietBacked ==
    ASSUME TypeInv, ComparingInv, Backing, QuietStep,
           NEW q \in Proc, job'[q] = job[q]
    PROVE  JobBacked(q)'
<1>1. PICK j : j = job[q] /\ j = job'[q]
  OBVIOUS
<1>2. /\ JobBacked(q) /\ ClaimInv
      /\ j.phase \in BackedPhase => j.id \in Id
  BY <1>1 DEF Backing, TypeInv, JobsIdentified, BackedPhase
<1>3. /\ j.phase = "decided" => IsAppend(j.final, j.id.batch) /\ market = content
      /\ j.phase = "rebase_planned" => IsRewrite(j.claim, j.id.batch) /\ market = content
      /\ j.phase = "claimed" => AppendInHand(j) /\ market = content
      /\ j.phase = "rebase_claimed" => RewriteInHand(j) /\ market = content
  BY <1>1, <1>2 DEF JobBacked, ComparingInv, Compared
<1>4. j.phase = "committed" =>
        \/ j.id \in receipt
        \/ AppendInHand(j) /\ market = j.final.content
  BY <1>1, <1>2 DEF JobBacked
<1>5. /\ j.phase = "rebase_committed"
      /\ lastEvent[j.id].kind = "REBASE_INTENT"
      /\ lastEvent[j.id].ticket = j.ticket
      => lastEvent[j.id].claim = j.claim /\ market = j.claim.post
  BY <1>1, <1>2 DEF JobBacked
<1>6. CASE j.phase \notin BackedPhase
  BY <1>1, <1>6, FreeBacked
<1>7. CASE j.phase \in BackedPhase
  <2>1. /\ UNCHANGED <<market, content>> /\ OpenIntents' = OpenIntents
        /\ receipt \subseteq receipt'
        /\ \A i \in OpenIntents : lastEvent'[i] = lastEvent[i]
        /\ \/ lastEvent'[j.id] = lastEvent[j.id]
           \/ lastEvent'[j.id].kind \notin IntentKind
    BY <1>2, <1>7, QuietClaims DEF QuietStep, OpenIntents
  <2>2. /\ AppendInHand(j) => AppendInHand(j)'
        /\ RewriteInHand(j) => RewriteInHand(j)'
    BY <2>1 DEF AppendInHand, RewriteInHand, IsAppend, IsRewrite, Claims
  <2>. QED
    BY <1>1, <1>3, <1>4, <1>5, <2>1, <2>2 DEF JobBacked, IsAppend, IsRewrite, IntentKind
<1>. QED
  BY <1>6, <1>7

\* and so does every other.
LEMMA OthersBacked ==
    ASSUME TypeInv, ControlInv, ComparingInv, Backing, NEW p \in Proc, HistoryStep(p),
           NEW q \in Proc, q # p, job'[q] = job[q]
    PROVE  JobBacked(q)'
<1>1. PICK j : j = job[q] /\ j = job'[q]
  OBVIOUS
<1>2. /\ JobBacked(q) /\ ClaimInv
      /\ j.phase \in BackedPhase => j.id \in Id
      /\ job[p].phase \in LockedPhase => j.phase \notin LockedPhase
  BY <1>1
     DEF Backing, TypeInv, JobsIdentified, BackedPhase, ControlInv, LockDiscipline
<1>3. /\ j.phase = "decided" => IsAppend(j.final, j.id.batch) /\ market = content
      /\ j.phase = "rebase_planned" => IsRewrite(j.claim, j.id.batch) /\ market = content
      /\ j.phase = "claimed" => AppendInHand(j) /\ market = content
      /\ j.phase = "rebase_claimed" => RewriteInHand(j) /\ market = content
  BY <1>1, <1>2 DEF JobBacked, ComparingInv, Compared
<1>4. j.phase = "committed" =>
        \/ j.id \in receipt
        \/ AppendInHand(j) /\ market = j.final.content /\ market # content
  BY <1>1, <1>2, InHandChanges DEF JobBacked, BackedPhase
<1>5. /\ j.phase = "rebase_committed"
      /\ lastEvent[j.id].kind = "REBASE_INTENT"
      /\ lastEvent[j.id].ticket = j.ticket
      => lastEvent[j.id].claim = j.claim /\ market = j.claim.post
  BY <1>1, <1>2 DEF JobBacked
<1>6. CASE j.phase \notin BackedPhase
  BY <1>1, <1>6, FreeBacked
<1>7. CASE QuietStep
  BY <1>7, QuietBacked
<1>8. CASE DroppingStep /\ j.phase \in BackedPhase
  <2>1. /\ UNCHANGED <<market, content, receipt>> /\ OpenIntents' = {}
        /\ lastEvent'[j.id].kind \notin IntentKind
    BY <1>2, <1>8 DEF DroppingStep, OpenIntents
  <2>2. /\ AppendInHand(j) => AppendInHand(j)'
        /\ RewriteInHand(j) => RewriteInHand(j)'
    BY <2>1 DEF AppendInHand, RewriteInHand, IsAppend, IsRewrite
  <2>. QED
    BY <1>1, <1>3, <1>4, <2>1, <2>2 DEF JobBacked, IsAppend, IsRewrite, IntentKind
<1>9. ASSUME NEW i, AttributingStep(i), j.phase \in BackedPhase
      PROVE  JobBacked(q)'
  <2>1. /\ i \in OpenIntents /\ market # content /\ receipt' = receipt \cup {i}
        /\ lastEvent'[j.id].kind \notin IntentKind
    BY <1>2, <1>9 DEF AttributingStep, OpenIntents
  <2>2. j.phase = "committed" => j.id \in receipt'
    BY <1>4, <2>1 DEF AppendInHand
  <2>3. j.phase \in {"committed", "rebase_committed"}
    BY <1>3, <1>9, <2>1 DEF BackedPhase
  <2>. QED
    BY <1>1, <2>1, <2>2, <2>3 DEF JobBacked, IntentKind
<1>10. ASSUME NEW i, ClaimingStep(i), job[p].phase \in Compared, j.phase \in BackedPhase
       PROVE  JobBacked(q)'
  <2>1. /\ market = content /\ OpenIntents = {} /\ OpenIntents' = {i} /\ receipt' = receipt
        /\ lastEvent'[i].kind = "REBASE_INTENT" => lastEvent'[i].ticket = ticket
    BY <1>10 DEF ComparingInv, ClaimingStep
  <2>2. j.phase \notin LockedPhase
    BY <1>2, <1>10 DEF Compared, LockedPhase
  <2>3. j.phase = "committed" => j.id \in receipt'
    BY <1>4, <2>1
  <2>4. j.phase \in {"committed", "rebase_committed"}
    BY <1>10, <2>2 DEF BackedPhase, LockedPhase
  <2>5. j.ticket # ticket
    BY <1>1 DEF ControlInv, TicketsIssued, TypeInv, TypeOK, LogTypeOK, StoreTypeOK, Job
  <2>6. lastEvent'[j.id].kind = "REBASE_INTENT" => lastEvent'[j.id].ticket = ticket
    BY <1>2, <1>10, <2>1 DEF OpenIntents, IntentKind
  <2>. QED
    BY <1>1, <2>3, <2>4, <2>5, <2>6 DEF JobBacked
<1>11. CASE WritingInHand(p) /\ j.phase \in BackedPhase
  <2>1. PICK g : g = job[p]
    OBVIOUS
  <2>2. /\ UNCHANGED <<lastEvent, receipt>> /\ g.phase \in {"claimed", "rebase_claimed"}
        /\ JobBacked(p)
    BY <1>11, <2>1 DEF WritingInHand, logVars, Backing
  <2>3. /\ market = content
        /\ g.phase = "claimed" => AppendInHand(g)
        /\ g.phase = "rebase_claimed" => RewriteInHand(g)
    BY <2>1, <2>2 DEF JobBacked
  <2>4. j.phase \notin LockedPhase
    BY <1>2, <2>1, <2>2 DEF LockedPhase
  <2>5. j.phase = "committed" => j.id \in receipt'
    BY <1>4, <2>2, <2>3
  <2>6. j.phase \in {"committed", "rebase_committed"}
    BY <1>11, <2>4 DEF BackedPhase, LockedPhase
  <2>7. lastEvent[j.id].kind = "REBASE_INTENT" =>
            lastEvent[j.id].claim.post # market
    BY <1>2, <1>11, <2>3
       DEF ClaimInv, IntentsExplainMarket, RewriteClaimed, IsRewrite
  <2>8. ~(/\ j.phase = "rebase_committed"
          /\ lastEvent[j.id].kind = "REBASE_INTENT"
          /\ lastEvent[j.id].ticket = j.ticket)
    BY <1>5, <2>7
  <2>. QED
    BY <1>1, <2>2, <2>5, <2>6, <2>8 DEF JobBacked
<1>. QED
  BY <1>6, <1>7, <1>8, <1>9, <1>10, <1>11 DEF HistoryStep

\* A withdrawal is quiet, or drops the open intent.
LEMMA AbandonHistory ==
    ASSUME TypeInv, ClaimInv, NEW i \in Id, AbandonIntent(i), UNCHANGED market
    PROVE  QuietStep \/ DroppingStep
<1>1. /\ lastEvent \in [Id -> Event] /\ SetEvent(i, "ABANDONED", 0, NoClaim)
      /\ UNCHANGED <<content, version, receipt, owner, baseline, resolution>>
  BY DEF AbandonIntent, UnchangedApplication, TypeInv, TypeOK, LogTypeOK
<1>2. CASE i \in OpenIntents
  BY <1>1, <1>2, LastIntentClosed DEF DroppingStep, IntentKind
<1>3. CASE i \notin OpenIntents
  <2>1. \A k \in Id : \/ lastEvent'[k] = lastEvent[k]
                      \/ /\ lastEvent[k].kind \notin IntentKind
                         /\ lastEvent'[k].kind \notin IntentKind
    BY <1>1, <1>3 DEF SetEvent, OpenIntents, IntentKind
  <2>. QED
    BY <1>1, <2>1
       DEF QuietStep, ClaimInv, IntentsExplainMarket, RewriteClaimed, OpenRebases,
           Resolved
<1>. QED
  BY <1>2, <1>3

\* A recovery attributes an intent or drops it.
LEMMA SettleHistory ==
    ASSUME TypeInv, ClaimInv, NEW p \in Proc, NEW i \in OpenIntents,
           SettleAppend(p, i) \/ SettleRebase(p, i), job[p].phase \notin BackedPhase
    PROVE  BackedAction(p)
<1>. DEFINE e == lastEvent[i]
            f == Reconciled(e.claim.sessions, market)
<1>1. i \in Id /\ f.sessions = e.claim.sessions /\ f.content = market
  BY DEF Reconciled, OpenIntents
<1>2. (UNCHANGED storeVars \/ FinishLocked(p)) /\ UNCHANGED market
  BY DEF SettleAppend, SettleRebase, FinishLocked, storeVars
<1>3. OnlyMoves(p) /\ JobBacked(p)'
  BY <1>2, MovedBacked DEF FinishLocked, storeVars
<1>4. CASE e.kind = "INTENT" /\ RowsPresent(i) /\ RecordApplication(i, f)
  <2>1. CASE Finalizes(i, f)
    <3>1. AttributingStep(i)
      BY <1>1, <1>2, <1>4, <2>1, AppendSettled, AppendAttributed
    <3>. QED
      BY <1>3, <3>1 DEF BackedAction, HistoryStep
  <2>2. CASE ~Finalizes(i, f)
    <3>1. UNCHANGED <<logVars, market>>
      BY <1>2, <1>4, <2>2 DEF RecordApplication
    <3>. QED
      BY <1>3, <3>1, QuietNoLog DEF BackedAction, HistoryStep
  <2>. QED
    BY <2>1, <2>2
<1>5. CASE /\ e.kind = "REBASE_INTENT" /\ market = e.claim.post
           /\ RecordRebase(i, e.claim, e.ticket)
  <2>1. CASE Rebases(i, e.claim, e.ticket)
    <3>1. AttributingStep(i)
      BY <1>2, <1>5, <2>1, RebaseAttributed
    <3>. QED
      BY <1>3, <3>1 DEF BackedAction, HistoryStep
  <2>2. CASE ~Rebases(i, e.claim, e.ticket)
    <3>1. UNCHANGED <<logVars, market>>
      BY <1>2, <1>5, <2>2 DEF RecordRebase
    <3>. QED
      BY <1>3, <3>1, QuietNoLog DEF BackedAction, HistoryStep
  <2>. QED
    BY <2>1, <2>2
<1>6. CASE AbandonIntent(i)
  BY <1>1, <1>2, <1>3, <1>6, AbandonHistory DEF BackedAction, HistoryStep
<1>. QED
  BY <1>4, <1>5, <1>6 DEF SettleAppend, SettleRebase

\* Every step of an admission keeps what its process has in hand.
LEMMA AdmissionHistory ==
    ASSUME TypeInv, ComparingInv, Backing, NEW p \in Proc, Admission(p)
    PROVE  BackedAction(p)
<1>0. PICK j, i, f : j = job[p] /\ i = j.id /\ f = j.final
  OBVIOUS
<1>. USE <1>0 DEF At
<1>. DEFINE b == i.batch
<1>1. ClaimInv /\ JobBacked(p)
  BY DEF Backing
<1>2. /\ job \in [Proc -> Job] /\ job[p] \in Job /\ content \in History
      /\ lastEvent \in [Id -> Event]
  BY DEF TypeInv, TypeOK, StoreTypeOK, LogTypeOK
<1>3. job[p].phase \notin NoIdPhase => i \in Id /\ b \in Batch
  BY IdentifiedJob DEF JobsOK, TypeInv, TypeOK, StoreTypeOK
<1>10. CASE ReuseReceipt(p) \/ Recovered(p)
  BY <1>1, <1>10, QuietNoLog, MovedBacked
     DEF ReuseReceipt, Recovered, FinishLocked, BackedAction, HistoryStep
<1>11. CASE InvalidReceipt(p) \/ NoReceipt(p) \/ Lock(p) \/ AppendFails(p)
  BY <1>1, <1>11, QuietNoLog, MovedBacked
     DEF InvalidReceipt, NoReceipt, Lock, AcquireLock, AppendFails, BackedAction,
         HistoryStep, BackedPhase
<1>12. CASE BindReadmission(p)
  <2>1. OnlyMoves(p) /\ job'[p].phase = "readmitted"
    BY <1>2, <1>12 DEF BindReadmission, OnlyMoves, Job
  <2>. QED
    BY <1>1, <1>12, <2>1, QuietNoLog, FreeBacked
       DEF BindReadmission, BackedAction, HistoryStep, BackedPhase
<1>13. CASE PersistReadmission(p)
  BY <1>1, <1>3, <1>13, QuietPersist, MovedBacked
     DEF PersistReadmission, BackedAction, HistoryStep, BackedPhase, NoIdPhase
<1>14. CASE \E k \in OpenIntents : Settle(p, k)
  BY <1>1, <1>14, SettleHistory DEF Settle, BackedPhase
<1>15. CASE \E k \in OpenIntents : BlockAmbiguous(p, k)
  <2>1. PICK k \in OpenIntents : Ambiguous(k)
    BY <1>15 DEF BlockAmbiguous
  <2>2. lastEvent[k].kind = "REBASE_INTENT"
    BY <1>1, <2>1, AppendSettled DEF Ambiguous
  <2>3. market \in {lastEvent[k].claim.pre, lastEvent[k].claim.post}
    BY <1>1, <2>2 DEF ClaimInv, IntentsExplainMarket, RewriteClaimed, OpenIntents
  <2>. QED
    BY <2>1, <2>2, <2>3 DEF Ambiguous
<1>16. CASE Supersede(p)
  BY <1>3, <1>16, QuietLogged, MovedBacked
     DEF Supersede, BackedAction, HistoryStep, BackedPhase, NoIdPhase
<1>17. CASE BlockMismatch(p) \/ BlockRevision(p) \/ FinalizeNoOp(p)
  <2>1. OpenIntents = {} /\ i \in Id /\ Finish(p) /\ UNCHANGED market
    BY <1>3, <1>17
       DEF BlockMismatch, BlockRevision, FinalizeNoOp, FinishLocked, ComparingInv,
           Comparing, NoIdPhase
  <2>2. QuietStep
    BY <1>17, <2>1, QuietLogged DEF BlockMismatch, BlockRevision, FinalizeNoOp
  <2>. QED
    BY <2>1, <2>2, MovedBacked DEF BackedAction, HistoryStep
<1>18. CASE Decide(p)
  <2>. DEFINE S == NewSessions(market, b)
  <2>0. PICK g : g = [sessions |-> S, content |-> Write(market, b, S),
                      decision |-> ticket, bound |-> version,
                      confirmed |-> Confirmed(market, b)]
    OBVIOUS
  <2>1. OpenIntents = {} /\ i \in Id /\ market = content
    BY <1>3, <1>18, VerifiedIsLatest DEF Decide, ComparingInv, Comparing, NoIdPhase
  <2>2. QuietStep
    BY <1>18, <2>1, QuietLogged DEF Decide
  <2>3. OnlyMoves(p) /\ job'[p].phase = "decided" /\ job'[p].final = g
        /\ job'[p].id = i
    BY <1>2, <1>18, <2>0 DEF Decide, OnlyMoves, Job
  <2>4. IsAppend(g, b)'
    BY <2>0, <2>1, <2>2 DEF IsAppend, QuietStep
  <2>5. JobBacked(p)'
    BY <2>3, <2>4 DEF JobBacked
  <2>. QED
    BY <2>2, <2>3, <2>5 DEF BackedAction, HistoryStep
<1>19. CASE ClaimSessions(p)
  <2>1. /\ OpenIntents = {} /\ i \in Id /\ market = content /\ IsAppend(f, b)
        /\ f.sessions # {} /\ job[p].phase \in Compared
    BY <1>1, <1>3, <1>19
       DEF ClaimSessions, JobBacked, ComparingInv, Comparing, Compared, NoIdPhase
  <2>2. OnlyMoves(p) /\ job'[p].phase = "claimed" /\ job'[p].id = i
        /\ job'[p].final = f
    BY <1>2, <1>19 DEF ClaimSessions, Goto, OnlyMoves, Job
  <2>3. /\ lastEvent' = [lastEvent EXCEPT ![i] =
                [kind |-> "INTENT", ticket |-> ticket,
                 claim |-> [NoClaim EXCEPT !.sessions = f.sessions]]]
        /\ UNCHANGED <<market, content, version, receipt, owner, baseline>>
    BY <1>19 DEF ClaimSessions, RecordIntent, SetEvent, UnchangedApplication
  <2>4. lastEvent'[i].kind = "INTENT" /\ lastEvent'[i].claim.sessions = f.sessions
        /\ \A k \in Id : k # i => lastEvent'[k].kind \notin IntentKind
    BY <1>2, <2>1, <2>3 DEF NoClaim, OpenIntents
  <2>5. AppendClaimed(i)'
    BY <2>1, <2>3, <2>4 DEF AppendClaimed, IsAppend
  <2>6. OpenIntents' = {i}
    BY <2>1, <2>4 DEF OpenIntents, IntentKind
  <2>7. ClaimingStep(i)
    BY <2>1, <2>3, <2>4, <2>5, <2>6 DEF ClaimingStep
  <2>8. PICK g : g = job'[p]
    OBVIOUS
  <2>9. AppendInHand(g)'
    BY <2>1, <2>2, <2>3, <2>4, <2>6, <2>8 DEF AppendInHand, IsAppend, Claims
  <2>10. JobBacked(p)'
    BY <2>1, <2>2, <2>3, <2>8, <2>9 DEF JobBacked
  <2>. QED
    BY <2>1, <2>2, <2>7, <2>10 DEF BackedAction, HistoryStep
<1>20. CASE AppendRows(p)
  <2>1. /\ i \in Id /\ AppendInHand(j) /\ market = content /\ job[p].phase = "claimed"
    BY <1>1, <1>3, <1>20 DEF AppendRows, JobBacked, NoIdPhase
  <2>2. UNCHANGED logVars /\ market' = Write(market, b, f.sessions)
    BY <1>20 DEF AppendRows
  <2>3. OnlyMoves(p) /\ job'[p].phase = "committed" /\ job'[p].id = i
        /\ job'[p].final = f
    BY <1>2, <1>20 DEF AppendRows, Goto, OnlyMoves, Job
  <2>4. market' = f.content
    BY <2>1, <2>2, InHandChanges
  <2>5. PICK g : g = job'[p]
    OBVIOUS
  <2>6. AppendInHand(g)'
    BY <2>1, <2>2, <2>3, <2>5 DEF AppendInHand, IsAppend, Claims, OpenIntents, logVars
  <2>7. JobBacked(p)'
    BY <2>3, <2>4, <2>5, <2>6 DEF JobBacked
  <2>. QED
    BY <2>1, <2>2, <2>3, <2>7 DEF BackedAction, HistoryStep, WritingInHand
<1>21. CASE FinalizeAppend(p)
  <2>1. /\ i \in Id /\ RecordApplication(i, f) /\ UNCHANGED market
        /\ job[p].phase = "committed" /\ OnlyMoves(p) /\ JobBacked(p)'
    BY <1>3, <1>21, MovedBacked DEF FinalizeAppend, NoIdPhase
  <2>2. CASE Finalizes(i, f)
    <3>1. AppendInHand(j) /\ market = f.content
      BY <1>1, <2>1, <2>2 DEF JobBacked, Finalizes
    <3>2. i \in OpenIntents /\ Claims(i, f)
      BY <2>1, <2>2, <3>1 DEF Finalizes, MayFinalize, AppendInHand, OpenIntents
    <3>3. f.content = Write(content, b, f.sessions)
      BY <2>1, <3>1, InHandChanges
    <3>4. AttributingStep(i)
      BY <1>1, <2>1, <2>2, <3>1, <3>2, <3>3, AppendAttributed DEF Claims
    <3>. QED
      BY <2>1, <3>4 DEF BackedAction, HistoryStep
  <2>3. CASE ~Finalizes(i, f)
    <3>1. UNCHANGED <<logVars, market>>
      BY <2>1, <2>3 DEF RecordApplication
    <3>. QED
      BY <1>1, <2>1, <3>1, QuietNoLog DEF BackedAction, HistoryStep
  <2>. QED
    BY <2>2, <2>3
<1>22. CASE AbandonAfterRollback(p)
  BY <1>1, <1>3, <1>22, AbandonHistory, MovedBacked
     DEF AbandonAfterRollback, BackedAction, HistoryStep, NoIdPhase
<1>. QED
  BY <1>10, <1>11, <1>12, <1>13, <1>14, <1>15, <1>16, <1>17, <1>18, <1>19, <1>20,
     <1>21, <1>22 DEF Admission

\* So does every step of a rebase or a recovery.
LEMMA ReviewedHistory ==
    ASSUME TypeInv, ComparingInv, Backing, NEW p \in Proc, Reviewed(p)
    PROVE  BackedAction(p)
<1>0. PICK j, i, c, t : j = job[p] /\ i = j.id /\ c = j.claim /\ t = j.ticket
  OBVIOUS
<1>. USE <1>0 DEF At
<1>. DEFINE b == i.batch
<1>1. ClaimInv /\ JobBacked(p)
  BY DEF Backing
<1>2. /\ job \in [Proc -> Job] /\ job[p] \in Job /\ content \in History
      /\ lastEvent \in [Id -> Event]
  BY DEF TypeInv, TypeOK, StoreTypeOK, LogTypeOK
<1>3. job[p].phase \notin NoIdPhase => i \in Id /\ b \in Batch
  BY IdentifiedJob DEF JobsOK, TypeInv, TypeOK, StoreTypeOK
<1>10. CASE \E k \in block : PlanRebase(p, k)
  <2>1. PICK k \in block : PlanRebase(p, k)
    BY <1>10
  <2>. DEFINE S == Changed(market, b)
  <2>2. /\ k.id = i /\ OpenIntents = {} /\ market = content /\ S # {}
        /\ b \in Batch /\ job[p].phase = "rebase_locked"
    BY <1>3, <2>1, VerifiedIsLatest DEF PlanRebase, Eligible, NoIdPhase
  <2>3. S \subseteq Stored(content) \cap Stored(b.rows) /\ Write(content, b, S) # content
    BY <1>2, <2>2, ChangedFacts
  <2>4. OnlyMoves(p) /\ job'[p].phase = "rebase_planned" /\ job'[p].id = i
        /\ job'[p].claim = RebaseClaim(k)
    BY <1>2, <2>1 DEF PlanRebase, OnlyMoves, Job
  <2>5. UNCHANGED <<logVars, market>> /\ content' = content
    BY <2>1 DEF PlanRebase, logVars
  <2>6. IsRewrite(RebaseClaim(k), b)
    BY <2>2, <2>3 DEF IsRewrite, RebaseClaim
  <2>7. JobBacked(p)'
    BY <2>4, <2>5, <2>6 DEF JobBacked, IsRewrite
  <2>. QED
    BY <1>1, <2>4, <2>5, <2>7, QuietNoLog DEF BackedAction, HistoryStep
<1>11. CASE LockRebase(p) \/ LockRecovery(p) \/ RewriteFails(p)
  BY <1>1, <1>11, QuietNoLog, MovedBacked
     DEF LockRebase, LockRecovery, AcquireLock, RewriteFails, BackedAction, HistoryStep,
         BackedPhase
<1>12. CASE RefuseRebase(p) \/ ClaimRefused(p) \/ FinishRecovery(p)
  BY <1>1, <1>12, QuietNoLog, MovedBacked
     DEF RefuseRebase, ClaimRefused, FinishRecovery, FinishLocked, BackedAction,
         HistoryStep
<1>13. CASE \E k \in OpenRebases : RebaseSettle(p, k) \/ RecoverySettle(p, k)
  BY <1>1, <1>13, SettleHistory
     DEF RebaseSettle, RecoverySettle, OpenRebases, OpenIntents, IntentKind, BackedPhase
<1>14. CASE ClaimBlock(p)
  <2>1. /\ OpenIntents = {} /\ i \in Id /\ market = content /\ IsRewrite(c, b)
        /\ job[p].phase \in Compared /\ c.block \notin Resolved
    BY <1>1, <1>3, <1>14
       DEF ClaimBlock, JobBacked, ComparingInv, Comparing, Compared, NoIdPhase,
           RecordRebaseIntent, MayClaimBlock
  <2>2. OnlyMoves(p) /\ job'[p].phase = "rebase_claimed" /\ job'[p].id = i
        /\ job'[p].claim = c /\ job'[p].ticket = ticket
    BY <1>2, <1>14 DEF ClaimBlock, OnlyMoves, Job
  <2>3. /\ lastEvent' = [lastEvent EXCEPT ![i] =
                [kind |-> "REBASE_INTENT", ticket |-> ticket, claim |-> c]]
        /\ UNCHANGED <<market, content, version, receipt, owner, baseline, resolution>>
    BY <1>14 DEF ClaimBlock, RecordRebaseIntent, SetEvent, UnchangedApplication
  <2>4. lastEvent'[i] = [kind |-> "REBASE_INTENT", ticket |-> ticket, claim |-> c]
        /\ \A k \in Id : k # i => lastEvent'[k].kind \notin IntentKind
    BY <1>2, <2>1, <2>3 DEF OpenIntents
  <2>5. RewriteClaimed(i)'
    BY <2>1, <2>3, <2>4 DEF RewriteClaimed, IsRewrite, Resolved
  <2>6. OpenIntents' = {i}
    BY <2>1, <2>4 DEF OpenIntents, IntentKind
  <2>7. ClaimingStep(i)
    BY <2>1, <2>3, <2>4, <2>5, <2>6 DEF ClaimingStep
  <2>8. PICK g : g = job'[p]
    OBVIOUS
  <2>9. RewriteInHand(g)'
    BY <2>1, <2>2, <2>3, <2>4, <2>6, <2>8 DEF RewriteInHand, IsRewrite
  <2>10. JobBacked(p)'
    BY <2>1, <2>2, <2>3, <2>8, <2>9 DEF JobBacked
  <2>. QED
    BY <2>1, <2>2, <2>7, <2>10 DEF BackedAction, HistoryStep
<1>15. CASE RewriteRows(p)
  <2>1. /\ i \in Id /\ RewriteInHand(j) /\ market = content
        /\ job[p].phase = "rebase_claimed"
    BY <1>1, <1>3, <1>15 DEF RewriteRows, JobBacked, NoIdPhase
  <2>2. UNCHANGED logVars /\ market' = Write(market, b, c.sessions)
    BY <1>15 DEF RewriteRows
  <2>3. OnlyMoves(p) /\ job'[p].phase = "rebase_committed" /\ job'[p].id = i
        /\ job'[p].claim = c /\ job'[p].ticket = t
    BY <1>2, <1>15 DEF RewriteRows, Goto, OnlyMoves, Job
  <2>4. market' = c.post
    BY <2>1, <2>2, InHandChanges
  <2>5. lastEvent[i].kind = "REBASE_INTENT" => lastEvent[i].claim = c
    BY <2>1 DEF RewriteInHand, OpenIntents, IntentKind
  <2>6. JobBacked(p)'
    BY <2>2, <2>3, <2>4, <2>5 DEF JobBacked, logVars
  <2>. QED
    BY <2>1, <2>2, <2>3, <2>6 DEF BackedAction, HistoryStep, WritingInHand
<1>16. CASE FinalizeRebase(p)
  <2>1. /\ i \in Id /\ RecordRebase(i, c, t) /\ UNCHANGED market
        /\ job[p].phase = "rebase_committed" /\ OnlyMoves(p) /\ JobBacked(p)'
    BY <1>3, <1>16, MovedBacked DEF FinalizeRebase, NoIdPhase
  <2>2. CASE Rebases(i, c, t)
    <3>1. lastEvent[i].kind = "REBASE_INTENT" /\ lastEvent[i].claim = c
          /\ market = c.post
      BY <1>1, <2>1, <2>2 DEF Rebases, MayRebase, JobBacked
    <3>2. AttributingStep(i)
      BY <1>1, <2>1, <2>2, <3>1, RebaseAttributed DEF OpenIntents, IntentKind
    <3>. QED
      BY <2>1, <3>2 DEF BackedAction, HistoryStep
  <2>3. CASE ~Rebases(i, c, t)
    <3>1. UNCHANGED <<logVars, market>>
      BY <2>1, <2>3 DEF RecordRebase
    <3>. QED
      BY <1>1, <2>1, <3>1, QuietNoLog DEF BackedAction, HistoryStep
  <2>. QED
    BY <2>2, <2>3
<1>. QED
  BY <1>10, <1>11, <1>12, <1>13, <1>14, <1>15, <1>16 DEF Reviewed

\* Every step is one of a process that keeps what it has in hand, or is quiet.
LEMMA EveryStepBacked ==
    ASSUME OutOfBandEdit = FALSE, TypeInv, ComparingInv, Backing, [Next]_vars
    PROVE  \/ \E p \in Proc : BackedAction(p)
           \/ QuietStep /\ job' = job
<1>1. ClaimInv
  BY DEF Backing
<1>2. \A p \in Proc : Progress(p) => BackedAction(p)
  BY AdmissionHistory, ReviewedHistory DEF Progress
<1>3. ASSUME NEW p \in Proc, Crash(p) PROVE BackedAction(p)
  BY <1>1, <1>3, QuietNoLog, MovedBacked DEF Crash, BackedAction, HistoryStep
<1>4. ASSUME NEW p \in Proc, Call(p) PROVE BackedAction(p)
  BY <1>1, <1>4, CallIsQuiet, FreeBacked DEF BackedAction, HistoryStep, BackedPhase
<1>5. ASSUME NEW k \in block, Review(k) PROVE QuietStep /\ job' = job
  BY <1>1, <1>5, ReviewIsQuiet
<1>6. CASE UNCHANGED vars
  BY <1>1, <1>6, QuietNoLog DEF vars, storeVars
<1>. QED
  BY <1>2, <1>3, <1>4, <1>5, <1>6 DEF Next, EditOutOfBand

\* The invariant for failing writes is inductive.
LEMMA BackingNext ==
    ASSUME OutOfBandEdit = FALSE, TypeInv, ControlInv, ComparingInv, Backing, [Next]_vars
    PROVE  Backing'
<1>1. ASSUME NEW p \in Proc, BackedAction(p) PROVE Backing'
  <2>1. HistoryStep(p) /\ JobBacked(p)' /\ \A q \in Proc : q # p => job'[q] = job[q]
    BY <1>1 DEF BackedAction, OnlyMoves
  <2>2. ClaimInv'
    BY <2>1, ClaimsKept
  <2>3. \A q \in Proc : JobBacked(q)'
    BY <2>1, OthersBacked
  <2>. QED
    BY <2>2, <2>3 DEF Backing
<1>2. ASSUME QuietStep, job' = job PROVE Backing'
  BY <1>2, QuietClaims, QuietBacked DEF Backing
<1>. QED
  BY <1>1, <1>2, EveryStepBacked

\* Every step is a step of VersionedHistory, or stutters in it.
LEMMA StepRefines ==
    ASSUME OutOfBandEdit = FALSE, TypeInv, ComparingInv, Backing, [Next]_vars
    PROVE  [VH!Next]_(VH!vhVars)
<1>1. CASE QuietStep
  BY <1>1 DEF QuietStep, VH!vhVars
<1>2. CASE DroppingStep
  BY <1>2 DEF DroppingStep, VH!vhVars
<1>3. ASSUME NEW i, AttributingStep(i) PROVE VH!Attribute
  BY <1>3 DEF AttributingStep, VH!Attribute, VH!Settled
<1>4. ASSUME NEW i, ClaimingStep(i) PROVE UNCHANGED VH!vhVars
  BY <1>4 DEF ClaimingStep, VH!vhVars
<1>5. ASSUME NEW p \in Proc, WritingInHand(p) PROVE VH!Append \/ VH!Rewrite
  <2>1. PICK j : j = job[p]
    OBVIOUS
  <2>2. /\ j.id \in Id /\ j.id.batch \in Batch /\ content \in History
        /\ UNCHANGED <<content, version>> /\ market = content /\ VH!Settled
        /\ j.phase \in {"claimed", "rebase_claimed"}
    BY <1>5, <2>1
       DEF WritingInHand, Backing, JobBacked, TypeInv, TypeOK, LogTypeOK, JobsIdentified,
           Id, VH!Settled, logVars
  <2>3. CASE j.phase = "claimed"
    <3>1. /\ AppendInHand(j) /\ market' = Write(content, j.id.batch, j.final.sessions)
      BY <1>5, <2>1, <2>2, <2>3 DEF WritingInHand, Backing, JobBacked
    <3>2. /\ market' # market
          /\ \A s \in j.final.sessions : market[s] = NoRow /\ After(market, s)
      BY <2>1, <2>2, <3>1, InHandChanges
    <3>3. \A s \in Session : market'[s] # market[s] => s \in j.final.sessions
      BY <2>2, <3>1 DEF Write
    <3>4. market' \in VH!History
      BY <2>2, <3>1, WriteType DEF VH!History, VH!Session, History, Session
    <3>5. \A s \in Session : market'[s] # market[s] =>
              market[s] = NoRow /\ After(market, s)
      BY <3>2, <3>3
    <3>. QED
      BY <2>2, <3>2, <3>4, <3>5
         DEF VH!Append, VH!After, VH!Stored, VH!Session, After, Stored, Session
  <2>4. CASE j.phase = "rebase_claimed"
    <3>1. RewriteInHand(j) /\ market' = Write(content, j.id.batch, j.claim.sessions)
      BY <1>5, <2>1, <2>2, <2>4 DEF WritingInHand, Backing, JobBacked
    <3>2. market' # market /\ Stored(market') = Stored(market)
      BY <2>1, <2>2, <3>1, InHandChanges
    <3>3. market' \in VH!History
      BY <2>2, <3>1, WriteType DEF VH!History, VH!Session, History, Session
    <3>. QED
      BY <2>2, <3>2, <3>3 DEF VH!Rewrite, VH!Stored, VH!Session, Stored, Session
  <2>. QED
    BY <2>2, <2>3, <2>4
<1>6. ASSUME NEW p \in Proc, HistoryStep(p) PROVE [VH!Next]_(VH!vhVars)
  BY <1>1, <1>2, <1>3, <1>4, <1>5, <1>6 DEF HistoryStep, VH!Next
<1>. QED
  BY <1>1, <1>6, EveryStepBacked DEF BackedAction

\* FailureInv is the types, the lock, what is compared and what backs a change.
LEMMA FailureParts ==
    FailureInv <=> TypeInv /\ LockDiscipline /\ TicketsIssued /\ ComparingInv /\ Backing
BY DEF FailureInv, Backing, ClaimInv, ComparingInv

\* FailureInv holds initially.
LEMMA FailureInit ==
    ASSUME Init
    PROVE  FailureInv
<1>1. MarketInv
  BY InvInit
<1>2. \A p \in Proc : job[p].phase = "idle"
  BY DEF Init, IdleJob
<1>3. \A p \in Proc : JobBacked(p)
  BY <1>2 DEF JobBacked
<1>4. version = 0 /\ content = baseline /\ rebasedBlock = {}
  BY DEF Init, LogInit
<1>5. ComparingInv
  BY <1>1, <1>2, <1>4 DEF MarketInv, ComparingInv, Comparing, Compared
<1>. QED
  BY <1>1, <1>3, <1>5 DEF FailureInv, MarketInv

\* Unless something else writes market.db, FailureInv holds, whatever fails and
\* wherever the processes die.
THEOREM FailureInvHolds ==
    ASSUME OutOfBandEdit = FALSE PROVE Spec => []FailureInv
<1>1. Init => FailureInv
  BY FailureInit
<1>2. ControlInv /\ FailureInv /\ [Next]_vars => FailureInv'
  <2>1. SUFFICES ASSUME ControlInv, FailureInv, [Next]_vars PROVE FailureInv'
    OBVIOUS
  <2>2. TypeInv /\ LockDiscipline /\ TicketsIssued /\ ComparingInv /\ Backing
    BY <2>1, FailureParts
  <2>3. TypeInv' /\ ControlInv' /\ Backing'
    BY <2>1, <2>2, NextType, ControlNext, BackingNext
  <2>4. ComparingInv'
    BY <2>1, <2>2, EveryStepCompares, ComparingKept, ForeignKeeps
  <2>. QED
    BY <2>3, <2>4 DEF FailureInv, Backing, ClaimInv, ControlInv
<1>3. TypeInv /\ ControlInv /\ ComparingInv => ControlInv
  OBVIOUS
<1>. QED
  BY <1>1, <1>2, <1>3, ComparingInvHolds, PTL DEF Spec

\* Locks, intents, crashes, failed writes and recovery together implement the
\* history that only ever moves from one attributed version to the next.
THEOREM ProtocolImplementsVersionedHistory ==
    ASSUME OutOfBandEdit = FALSE PROVE Spec => ImplementsVersionedHistory
<1>1. Init => VH!Init
  BY DEF Init, LogInit, VH!Init
<1>2. FailureInv /\ [Next]_vars => [VH!Next]_(VH!vhVars)
  BY StepRefines, FailureParts
<1>. QED
  BY <1>1, <1>2, FailureInvHolds, PTL DEF Spec, VH!Spec, ImplementsVersionedHistory

=============================================================================
