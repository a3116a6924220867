-------------------------- MODULE MarketInvariant --------------------------
(***************************************************************************)
(* The inductive invariants behind MarketProperties when nothing else      *)
(* writes market.db: MarketInv and RecoveryInv if moreover nothing fails   *)
(* inside a write, FailureInv otherwise.                                   *)
(***************************************************************************)
EXTENDS MarketProperties

\* A call that works on an observation knows which.
JobsIdentified ==
    \A p \in Proc :
        job[p].phase \notin {"idle", "recover_waiting", "recover_locked"} =>
            job[p].id \in Id

TypeInv == TypeOK /\ JobsIdentified

\* A process is inside its BEGIN IMMEDIATE section exactly while it holds the
\* market write lock, so no two processes ever are.
LockDiscipline ==
    \A p \in Proc : job[p].phase \in LockedPhase <=> lock = p

NothingFailed == \A p \in Proc : job[p].phase # "failed"
TicketsIssued == \A p \in Proc : job[p].ticket < ticket

\* A claimed append goes behind the latest version and is either absent from
\* the market or there as a whole.
AppendClaimed(i) ==
    LET S == lastEvent[i].claim.sessions
    IN  /\ S # {} /\ S \subseteq NewSessions(content, i.batch)
        /\ market \in {content, Write(content, i.batch, S)}

\* A claimed rewrite starts from the latest version, touches only sessions that
\* are stored and proposed, and is absent from the market or there as a whole.
IsRewrite(c, b) ==
    /\ c.pre = content
    /\ c.post = Write(content, b, c.sessions)
    /\ c.post # c.pre
    /\ c.sessions \subseteq Stored(content) \cap Stored(b.rows)

RewriteClaimed(i) ==
    LET c == lastEvent[i].claim
    IN  /\ IsRewrite(c, i.batch)
        /\ c.block \notin Resolved
        /\ market \in {c.pre, c.post}

IntentsExplainMarket ==
    \A i \in Id :
        /\ lastEvent[i].kind = "INTENT" => AppendClaimed(i)
        /\ lastEvent[i].kind = "REBASE_INTENT" => RewriteClaimed(i)

\* Every row of the latest version is baseline or owned.
VersionAttributed ==
    \A s \in Stored(content) : Within(baseline, s) \/ owner[s] # NoOwner

\* What a process may rely on at each point of its call.
IsAppend(f, b) ==
    /\ f.sessions = NewSessions(content, b)
    /\ f.content = Write(content, b, f.sessions)

Claims(i, f) ==
    lastEvent[i].kind = "INTENT" /\ lastEvent[i].claim.sessions = f.sessions

JobConsistent(p) ==
    LET j == job[p]
    IN  /\ j.phase \in {"comparing", "decided", "rebase_planned"} => OpenIntents = {}
        /\ j.phase \in {"decided", "claimed"} => IsAppend(j.final, j.id.batch)
        /\ j.phase \in {"claimed", "committed"} => j.final.sessions # {}
        /\ j.phase = "claimed" => Claims(j.id, j.final) /\ market = content
        /\ j.phase = "committed" =>
             \/ j.id \in receipt
             \/ /\ Claims(j.id, j.final) /\ market = j.final.content
                /\ j.final.content = Write(content, j.id.batch, j.final.sessions)
        /\ j.phase = "rebase_planned" => IsRewrite(j.claim, j.id.batch)
        /\ j.phase = "rebase_claimed" =>
             /\ lastEvent[j.id] = [kind |-> "REBASE_INTENT", ticket |-> j.ticket,
                                   claim |-> j.claim]
             /\ market = content
        /\ /\ j.phase = "rebase_committed"
           /\ lastEvent[j.id].kind = "REBASE_INTENT"
           /\ lastEvent[j.id].ticket = j.ticket
           => lastEvent[j.id].claim = j.claim /\ market = j.claim.post

JobsConsistent == \A p \in Proc : JobConsistent(p)

MarketInv ==
    /\ TypeInv
    /\ LockDiscipline
    /\ NothingFailed
    /\ TicketsIssued
    /\ OneOpenIntent
    /\ IntentsExplainMarket
    /\ SettledMarketIsVersioned
    /\ VersionAttributed
    /\ JobsConsistent

-----------------------------------------------------------------------------
(***************************************************************************)
(* What recovery and reviews rest on, beyond MarketInv.                    *)
(***************************************************************************)

\* The history holds every row of the batch and misses none inside its window:
\* what an admission leaves.  A batch that disagrees will never be admitted
\* before a rebase, because appends do not touch old sessions.
Whole(h, b) == Matches(h, b) /\ Missing(h, b) = {}

Disagrees(h, b) ==
    \/ \E s \in Stored(b.rows) : Within(h, s) /\ h[s] # b.rows[s]
    \/ Missing(h, b) # {}

OpenRevision(k) == k \in Unresolved /\ k.result = "BLOCKED_REVISION_CHANGED"

BlocksTicketed ==
    /\ \A k \in block : k.ticket < ticket
    /\ \A k, n \in block : k.ticket = n.ticket => k = n

OwnedAreVersioned == \A s \in Session : owner[s] # NoOwner => s \in Stored(content)

RebasedAreResolved == rebasedBlock \subseteq Resolved

IntentsUnapplied == OpenIntents \cap receipt = {}

\* The rebase of observation i ends in a basis that agrees with i, and resolves
\* every open revision block that basis agrees with.
PlanIsCurrent(i, c) ==
    /\ c.on = version
    /\ ~Disagrees(c.post, i.batch)
    /\ \A k \in block :
        OpenRevision(k) => \/ k.ticket = c.block \/ k.ticket \in c.older
                           \/ Disagrees(c.post, k.id.batch)

ClaimsAreCurrent ==
    \A i \in OpenIntents :
        LET e == lastEvent[i]
        IN  /\ e.kind = "INTENT" =>
                Whole(Write(content, i.batch, e.claim.sessions), i.batch)
            /\ e.kind = "REBASE_INTENT" => PlanIsCurrent(i, e.claim)

\* No admission can make an open revision block obsolete by itself.
RevisionsDisagree ==
    \A k \in block : OpenRevision(k) => Disagrees(content, k.id.batch)

ReceiptsMatch == rebasedBlock = {} => \A i \in receipt : Matches(content, i.batch)

\* What a decision captured for its finalization.
DecisionIsCurrent(j) ==
    /\ j.final.bound = version
    /\ Whole(j.final.content, j.id.batch)
    /\ \A s \in j.final.confirmed : market[s] = j.id.batch.rows[s]

JobReady(p) ==
    LET j == job[p]
    IN  /\ j.phase \in {"comparing", "decided", "claimed", "rebase_planned"} =>
                j.id \notin receipt
        /\ j.phase \in {"decided", "claimed"} => DecisionIsCurrent(j)
        /\ j.phase = "committed" => j.id \in receipt \/ DecisionIsCurrent(j)
        /\ j.phase = "rebase_planned" => PlanIsCurrent(j.id, j.claim)
        /\ j.phase = "rebase_committed" =>
                \/ j.claim.block \in rebasedBlock
                \/ lastEvent[j.id] = [kind |-> "REBASE_INTENT", ticket |-> j.ticket,
                                      claim |-> j.claim]

LogReady ==
    /\ BlocksTicketed
    /\ OwnedAreVersioned
    /\ RebasedAreResolved
    /\ IntentsUnapplied
    /\ ClaimsAreCurrent
    /\ RevisionsDisagree
    /\ AppliedHasNoOpenRevision
    /\ ReceiptsMatch

RecoveryInv == LogReady /\ \A p \in Proc : JobReady(p)

-----------------------------------------------------------------------------
(***************************************************************************)
(* What is left of it when writes fail.  A process that failed withdraws   *)
(* whatever intent of its observation is open, also one that another       *)
(* process is acting on.  A change without its intent is never recorded,   *)
(* and the market then stays as it is.                                     *)
(***************************************************************************)

Comparing == {"comparing", "decided", "rebase_planned"}
Compared == {"decided", "rebase_planned"}

\* While somebody compares no intent is open, and who has compared has found the
\* latest version in the market; before the first that is the baseline.
ComparingInv ==
    /\ OneOpenIntent
    /\ \A p \in Proc : job[p].phase \in Comparing => OpenIntents = {}
    /\ \A p \in Proc : job[p].phase \in Compared => market = content
    /\ version = 0 => content = baseline /\ rebasedBlock = {}

\* No intent is open but the one a process acts on, unless it was withdrawn.
AppendInHand(j) ==
    /\ IsAppend(j.final, j.id.batch) /\ j.final.sessions # {}
    /\ \A i \in OpenIntents : i = j.id /\ Claims(i, j.final)

RewriteInHand(j) ==
    /\ IsRewrite(j.claim, j.id.batch)
    /\ \A i \in OpenIntents :
        /\ i = j.id
        /\ lastEvent[i] = [kind |-> "REBASE_INTENT", ticket |-> j.ticket,
                           claim |-> j.claim]

JobBacked(p) ==
    LET j == job[p]
    IN  /\ j.phase = "decided" => IsAppend(j.final, j.id.batch)
        /\ j.phase = "rebase_planned" => IsRewrite(j.claim, j.id.batch)
        /\ j.phase = "claimed" => AppendInHand(j) /\ market = content
        /\ j.phase = "rebase_claimed" => RewriteInHand(j) /\ market = content
        /\ j.phase = "committed" =>
             \/ j.id \in receipt
             \/ AppendInHand(j) /\ market = j.final.content
        /\ /\ j.phase = "rebase_committed"
           /\ lastEvent[j.id].kind = "REBASE_INTENT"
           /\ lastEvent[j.id].ticket = j.ticket
           => lastEvent[j.id].claim = j.claim /\ market = j.claim.post

\* The inductive invariant then.
FailureInv ==
    /\ TypeInv
    /\ LockDiscipline
    /\ TicketsIssued
    /\ ComparingInv
    /\ IntentsExplainMarket
    /\ VersionAttributed
    /\ \A p \in Proc : JobBacked(p)
=============================================================================
