-------------------------- MODULE MarketAdmission ---------------------------
(***************************************************************************)
(* admit_price_batch: the only way provider rows reach market.db.          *)
(*                                                                         *)
(*   observe -> reuse a receipt, or                                        *)
(*   [lock] settle open intents -> supersede -> verify and compare         *)
(*          -> block, or decide -> claim (durable intent) -> append        *)
(*   [unlocked] record the application                                     *)
(*                                                                         *)
(* Every step between two durable effects is an action of its own, so a    *)
(* crash or another process may come between any two of them.              *)
(***************************************************************************)
EXTENDS MarketStore

\* normalize_candidate accepted the batch; an empty one without any stored
\* history is rejected (EMPTY_CANDIDATE) and changes nothing.
Observe(p, b) ==
    LET i == Observation(b)
    IN  /\ Stored(b.rows) # {} \/ Stored(market) # {}
        /\ Start(p, [IdleJob EXCEPT !.phase = "observed", !.id = i])
        /\ PersistObservation(i)
        /\ UNCHANGED <<market, lock, edited>>

\* An APPLIED receipt that still matches the market is returned as it is.
ReuseReceipt(p) ==
    /\ At(p, "observed")
    /\ job[p].id \in receipt
    /\ Matches(market, job[p].id.batch)
    /\ Finish(p)
    /\ UNCHANGED <<logVars, market, lock, jobs, edited>>

\* A reviewed rebase invalidated the receipt: re-admit the content under an
\* identity bound to the current version.
InvalidReceipt(p) ==
    /\ At(p, "observed")
    /\ job[p].id \in receipt
    /\ ~Matches(market, job[p].id.batch)
    /\ Goto(p, IF job[p].id.basis = 0 THEN "readmitting" ELSE "waiting")
    /\ UNCHANGED <<logVars, market, lock, jobs, edited>>

BindReadmission(p) ==
    /\ At(p, "readmitting")
    /\ version <= MaxVersion
    /\ job' = [job EXCEPT ![p].phase = "readmitted",
                          ![p].id.basis = version + 1]
    /\ UNCHANGED <<logVars, market, lock, jobs, edited>>

PersistReadmission(p) ==
    /\ At(p, "readmitted")
    /\ PersistObservation(job[p].id)
    /\ Goto(p, "observed")
    /\ UNCHANGED <<market, lock, jobs, edited>>

NoReceipt(p) ==
    /\ At(p, "observed")
    /\ job[p].id \notin receipt
    /\ Goto(p, "waiting")
    /\ UNCHANGED <<logVars, market, lock, jobs, edited>>

Lock(p) == AcquireLock(p, "waiting", "locked")

Settle(p, i) ==
    /\ At(p, "locked")
    /\ SettleAppend(p, i) \/ SettleRebase(p, i)

\* The open intent is neither absent nor wholly present: fail closed.
BlockAmbiguous(p, i) ==
    /\ At(p, "locked")
    /\ Ambiguous(i)
    /\ RecordBlock(job[p].id, "BLOCKED_DATASET_MISMATCH", {}, EmptyHistory)
    /\ FinishLocked(p)

\* This very observation was applied meanwhile (by recovery or another
\* process): ALREADY_APPLIED, or FAILED when its receipt no longer matches.
Recovered(p) ==
    /\ At(p, "locked")
    /\ OpenIntents = {}
    /\ job[p].id \in receipt
    /\ FinishLocked(p)
    /\ UNCHANGED logVars

\* Mutant: pending observations are superseded before intents are settled.
SupersedeUnsettled(p) ==
    /\ At(p, "locked")
    /\ job[p].id \notin receipt
    /\ SupersedeOthers(job[p].id)
    /\ Goto(p, "comparing")
    /\ UNCHANGED <<market, lock, jobs, edited>>

Supersede(p) ==
    /\ At(p, "locked")
    /\ OpenIntents = {}
    /\ job[p].id \notin receipt
    /\ SupersedeOthers(job[p].id)
    /\ Goto(p, "comparing")
    /\ UNCHANGED <<market, lock, jobs, edited>>

BlockMismatch(p) ==
    /\ At(p, "comparing")
    /\ ~Verified(market)
    /\ RecordBlock(job[p].id, "BLOCKED_DATASET_MISMATCH", {}, EmptyHistory)
    /\ FinishLocked(p)

BlockRevision(p) ==
    LET b == job[p].id.batch
    IN  /\ At(p, "comparing")
        /\ Verified(market)
        /\ ~Admitted(market, b)
        /\ RecordBlock(job[p].id, Classify(market, b), Affected(market, b),
                       WindowRows(market, b))
        /\ FinishLocked(p)

\* Everything the finalization relies on is captured here, under the lock.
Decide(p) ==
    LET b == job[p].id.batch
        S == NewSessions(market, b)
    IN  /\ At(p, "comparing")
        /\ Verified(market)
        /\ Admitted(market, b)
        /\ RecordDecision(job[p].id)
        /\ job' = [job EXCEPT
                    ![p].phase = "decided",
                    ![p].final = [sessions |-> S, content |-> Write(market, b, S),
                                  decision |-> ticket, bound |-> version,
                                  confirmed |-> Confirmed(market, b)]]
        /\ UNCHANGED <<market, lock, jobs, edited>>

\* Nothing new: finalized inside the serialization boundary.
FinalizeNoOp(p) ==
    /\ At(p, "decided")
    /\ job[p].final.sessions = {}
    /\ RecordApplication(job[p].id, job[p].final)
    /\ FinishLocked(p)

ClaimSessions(p) ==
    /\ At(p, "decided")
    /\ job[p].final.sessions # {}
    /\ RecordIntent(job[p].id, job[p].final.sessions)
    /\ Goto(p, "claimed")
    /\ UNCHANGED <<market, lock, jobs, edited>>

\* A plain INSERT of the new sessions, then COMMIT.
AppendRows(p) ==
    /\ At(p, "claimed")
    /\ market' = Write(market, job[p].id.batch, job[p].final.sessions)
    /\ Goto(p, "committed")
    /\ Release(p)
    /\ UNCHANGED <<logVars, jobs, edited>>

\* The INSERT raised: ROLLBACK frees the lock before anything is logged.
AppendFails(p) ==
    /\ WriteMayFail
    /\ At(p, "claimed")
    /\ Goto(p, "failed")
    /\ Release(p)
    /\ UNCHANGED <<logVars, market, jobs, edited>>

FinalizeAppend(p) ==
    /\ At(p, "committed")
    /\ RecordApplication(job[p].id, job[p].final)
    /\ Finish(p)
    /\ UNCHANGED <<market, lock, jobs, edited>>

\* What a started admission does next.
Admission(p) ==
    \/ ReuseReceipt(p) \/ InvalidReceipt(p) \/ NoReceipt(p)
    \/ BindReadmission(p) \/ PersistReadmission(p)
    \/ Lock(p)
    \/ \E i \in OpenIntents : Settle(p, i) \/ BlockAmbiguous(p, i)
    \/ Recovered(p) \/ Supersede(p)
    \/ BlockMismatch(p) \/ BlockRevision(p) \/ Decide(p)
    \/ FinalizeNoOp(p)
    \/ ClaimSessions(p) \/ AppendRows(p) \/ FinalizeAppend(p)
    \/ AppendFails(p) \/ AbandonAfterRollback(p)
=============================================================================
