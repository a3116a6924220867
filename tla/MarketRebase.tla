---------------------------- MODULE MarketRebase ----------------------------
(***************************************************************************)
(* Reviewed resolution of blocks: the per-symbol rebase (the one           *)
(* sanctioned rewrite of stored history), its recovery, and the plain      *)
(* review.  Composed with ingestion in Next.                               *)
(***************************************************************************)
EXTENDS MarketAdmission

\* plan_rebase: every precondition of the rebase of block k.
Eligible(k) ==
    LET b == k.id.batch
    IN  /\ k \in Unresolved
        /\ k.result = "BLOCKED_REVISION_CHANGED"
        /\ \A n \in Unresolved : n.ticket <= k.ticket
        /\ OpenIntents = {}
        /\ Verified(market)
        /\ WindowRows(market, b) = k.window
        /\ Window(market, b) = Stored(market)
        /\ Changed(market, b) # {}
        /\ Missing(market, b) = {} /\ UnstoredInside(market, b) = {}
        /\ Changed(market, b) = k.affected
        /\ IsPrefix(Changed(market, b), market)

\* Older blocks whose whole proposal agrees with the resulting basis.
SupersededBlocks(k, post) ==
    {n.ticket : n \in {m \in Unresolved :
                        /\ m.ticket < k.ticket
                        /\ m.result = "BLOCKED_REVISION_CHANGED"
                        /\ CompatibleWithBasis(m.id.batch, post)}}

RebaseClaim(k) ==
    LET S    == Changed(market, k.id.batch)
        post == Write(market, k.id.batch, S)
    IN  [sessions |-> S, pre |-> market, post |-> post, on |-> version,
         block |-> k.ticket, older |-> SupersededBlocks(k, post)]

\* The operator names a block; one already rebased is reported, not redone.
RequestRebase(p, k) ==
    /\ k.ticket \notin rebasedBlock
    /\ Start(p, [IdleJob EXCEPT !.phase = "rebase_waiting", !.id = k.id,
                                !.block = k.ticket])
    /\ UNCHANGED <<logVars, market, lock, edited>>

LockRebase(p) == AcquireLock(p, "rebase_waiting", "rebase_locked")

RebaseSettle(p, i) ==
    /\ At(p, "rebase_locked")
    /\ SettleRebase(p, i)

\* Another process finished it, a precondition fails, an earlier rebase is
\* ambiguous, or the symbol has paper exposure (which may always be so).
RefuseRebase(p) ==
    /\ At(p, "rebase_locked")
    /\ \A i \in OpenRebases : Ambiguous(i)
    /\ FinishLocked(p)
    /\ UNCHANGED logVars

PlanRebase(p, k) ==
    /\ At(p, "rebase_locked")
    /\ k.ticket = job[p].block /\ k.id = job[p].id
    /\ k.ticket \notin rebasedBlock
    /\ OpenRebases = {}
    /\ Eligible(k)
    /\ job' = [job EXCEPT ![p].phase = "rebase_planned",
                          ![p].claim = RebaseClaim(k)]
    /\ UNCHANGED <<logVars, market, lock, jobs, edited>>

\* Mutant: the rewrite is not claimed by an intent.
ClaimNothing(p) ==
    /\ At(p, "rebase_planned")
    /\ job' = [job EXCEPT ![p].phase = "rebase_claimed", ![p].ticket = ticket]
    /\ UNCHANGED <<logVars, market, lock, jobs, edited>>

ClaimBlock(p) ==
    /\ At(p, "rebase_planned")
    /\ RecordRebaseIntent(job[p].id, job[p].claim)
    /\ job' = [job EXCEPT ![p].phase = "rebase_claimed", ![p].ticket = ticket]
    /\ UNCHANGED <<market, lock, jobs, edited>>

\* A review resolved the block between the plan and the claim: refused.
ClaimRefused(p) ==
    /\ At(p, "rebase_planned")
    /\ ~MayClaimBlock(job[p].claim)
    /\ FinishLocked(p)
    /\ UNCHANGED logVars

\* UPDATE exactly the reviewed sessions, verify the whole symbol, COMMIT.
RewriteRows(p) ==
    /\ At(p, "rebase_claimed")
    /\ market' = Write(market, job[p].id.batch, job[p].claim.sessions)
    /\ Goto(p, "rebase_committed")
    /\ Release(p)
    /\ UNCHANGED <<logVars, jobs, edited>>

RewriteFails(p) ==
    /\ WriteMayFail
    /\ At(p, "rebase_claimed")
    /\ Goto(p, "failed")
    /\ Release(p)
    /\ UNCHANGED <<logVars, market, jobs, edited>>

FinalizeRebase(p) ==
    /\ At(p, "rebase_committed")
    /\ RecordRebase(job[p].id, job[p].claim, job[p].ticket)
    /\ Finish(p)
    /\ UNCHANGED <<market, lock, jobs, edited>>

\* recover_rebase: settle interrupted rebases, start nothing.
RequestRecovery(p) ==
    /\ Start(p, [IdleJob EXCEPT !.phase = "recover_waiting"])
    /\ UNCHANGED <<logVars, market, lock, edited>>

LockRecovery(p) == AcquireLock(p, "recover_waiting", "recover_locked")

RecoverySettle(p, i) ==
    /\ At(p, "recover_locked")
    /\ SettleRebase(p, i)

FinishRecovery(p) ==
    /\ At(p, "recover_locked")
    /\ \A i \in OpenRebases : Ambiguous(i)
    /\ FinishLocked(p)
    /\ UNCHANGED logVars

\* Plain review of a block (resolve_market_block.py, --action review).
Review(k) == ResolveBlock(k) /\ UNCHANGED storeVars

\* What a started rebase or recovery does next.
Reviewed(p) ==
    \/ \E k \in block : PlanRebase(p, k)
    \/ LockRebase(p) \/ RefuseRebase(p)
    \/ \E i \in OpenRebases : RebaseSettle(p, i) \/ RecoverySettle(p, i)
    \/ ClaimBlock(p) \/ ClaimRefused(p)
    \/ RewriteRows(p) \/ RewriteFails(p) \/ FinalizeRebase(p)
    \/ LockRecovery(p) \/ FinishRecovery(p)

Call(p) ==
    \/ \E b \in Batch : Observe(p, b)
    \/ \E k \in block : RequestRebase(p, k)
    \/ RequestRecovery(p)

Progress(p) == Admission(p) \/ Reviewed(p)

Next ==
    \/ \E p \in Proc : Call(p) \/ Progress(p) \/ Crash(p)
    \/ \E k \in block : Review(k)
    \/ \E h \in InitialHistory : EditOutOfBand(h)

Spec == Init /\ [][Next]_vars

\* A process that has started a call keeps running it, or dies.
FairSpec == Spec /\ \A p \in Proc : WF_vars(Progress(p))
=============================================================================
