-------------------------- MODULE MarketProperties --------------------------
(***************************************************************************)
(* What admission, reviewed rebase and recovery owe together.              *)
(***************************************************************************)
EXTENDS MarketRebase

\* At most one application intent of the symbol is open at any time, so
\* recovery never has to tell two interrupted changes apart
\* (reconcile_open_intents runs before any new intent is recorded).
OneOpenIntent == \A i, j \in OpenIntents : i = j

\* Every stored row is baseline, owned by an applied observation, or claimed by
\* an open intent: session_provenance never answers UNATTRIBUTED.
NoUnattributedRow ==
    \A s \in Stored(market) :
        \/ Within(baseline, s)
        \/ owner[s] # NoOwner
        \/ \E i \in OpenIntents : s \in lastEvent[i].claim.sessions

\* With no change in flight the market is exactly what the latest symbol
\* version (or the baseline) describes.
SettledMarketIsVersioned == OpenIntents = {} => market = content

\* Once a market change is committed its finalization can only succeed or have
\* been done by recovery: record_application and record_rebase never raise.
CommittedChangeIsFinalizable ==
    \A p \in Proc :
        /\ At(p, "committed") =>
             job[p].id \in receipt \/ MayFinalize(job[p].id, job[p].final)
        /\ At(p, "rebase_committed") =>
             \/ job[p].claim.block \in rebasedBlock
             \/ MayRebase(job[p].id, job[p].claim, job[p].ticket)

\* Whatever a dead process left committed can be finalized by the next one.
OrphanedChangeIsRecoverable ==
    \A i \in OpenIntents :
        LET e == lastEvent[i]
        IN  IF e.kind = "INTENT"
            THEN \/ RowsPresent(i) /\ Finalizes(i, Reconciled(e.claim.sessions, market))
                 \/ RowsAbsent(i)
            ELSE \/ market = e.claim.post /\ Rebases(i, e.claim, e.ticket)
                 \/ market = e.claim.pre

\* Stored values change only under an open reviewed rebase of a block nobody
\* resolved, to exactly the reviewed values; otherwise rows are only appended
\* after the latest stored session, and rows never disappear.
HistoryRewrittenOnlyByReview ==
    [][\A s \in Session :
        market'[s] # market[s] =>
            IF market[s] = NoRow THEN After(market, s)
            ELSE \E i \in OpenRebases :
                    /\ s \in lastEvent[i].claim.sessions
                    /\ lastEvent[i].claim.block \notin Resolved
                    /\ market'[s] = i.batch.rows[s]]_market

\* An accepted observation lifts a block only if it agrees with the stored
\* market on every session the block is about.
BlockLiftedOnlyByAgreement ==
    [][\A r \in resolution' \ resolution :
        r.kind = "ACCEPTED" =>
            \E k \in block, i \in receipt' \ receipt :
                /\ k.ticket = r.block
                /\ k.affected # {}
                /\ \A s \in k.affected : market[s] = i.batch.rows[s]]_resolution

\* An applied receipt may be reused: outside a reviewed rebase the rows of an
\* applied observation stay stored with exactly the observed values.
AppliedRowsStayStored ==
    rebasedBlock = {} /\ OpenRebases = {} =>
        \A i \in receipt : Matches(market, i.batch)

\* No observation is both applied and the subject of an unresolved revision
\* block, so a block a rebase may claim never belongs to an applied
\* observation (whose second application the log would refuse for ever).
AppliedHasNoOpenRevision ==
    \A k \in Unresolved :
        k.result = "BLOCKED_REVISION_CHANGED" => k.id \notin receipt

\* A market that no longer is what its latest version describes, with nothing in
\* flight that would explain it, is never built upon: neither admission nor a
\* rebase claims a change of it, so it is never absorbed into a new version.
MismatchNeverClaimed ==
    [][OpenIntents = {} /\ market # content => OpenIntents' = {}]_logVars

\* A market that passes verification stores, in every session an applied
\* observation still owns, exactly what that observation saw: tampering with
\* market.db stays detectable.
TamperingIsDetectable ==
    OpenIntents = {} /\ Verified(market) =>
        \A s \in Session :
            owner[s] # NoOwner /\ rebaseOwner[s] = NoOwner =>
                market[s] = owner[s].batch.rows[s]

\* Without a write outside this code the whole protocol (locks, intents, crashes,
\* recovery, failed writes) implements VersionedHistory: rows change only from a
\* fully attributed history, and each change is attributed by one version.
VH == INSTANCE VersionedHistory WITH
        Initial <- InitialHistory, history <- market, attributed <- content
ImplementsVersionedHistory == VH!Spec

\* Every call ends, whatever the other processes do, wherever they die and
\* whatever they left open: nobody waits for ever for the market lock.
CallsTerminate == \A p \in Proc : ~At(p, "idle") ~> At(p, "idle")
=============================================================================
