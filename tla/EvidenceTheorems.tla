-------------------------- MODULE EvidenceTheorems --------------------------
(***************************************************************************)
(* A binding never describes rows its consumer did not read, drift is      *)
(* never silent, and a reused verdict is current: for any number of        *)
(* writers, sessions and batches, when no write fails and nothing else     *)
(* writes market.db.                                                       *)
(***************************************************************************)
EXTENDS EvidenceQualifier, MarketProofs

-----------------------------------------------------------------------------
(* The invariants *)

\* The symbol version owns only what it stores, through applied observations.
AttributionInv ==
    /\ \A s \in Session :
        owner[s] # NoOwner \/ rebaseOwner[s] # NoOwner => content[s] # NoRow
    /\ \A s \in Session : rebaseOwner[s] \in receipt \cup {NoOwner}

\* The market already stores another value of s than the latest version does.
Dirty(s) == market[s] # content[s]

\* The consumer read a row of s, or saw s present, that the pinned version does
\* not have.
Tainted(s) == \/ reader.rows[s] # reader.basis[s]
              \/ s \in reader.seen.present /\ reader.basis[s] = NoRow

\* The read of the given kind has been made.
Done(local, kind) == \E n \in 1 .. Len(Reads(local.coverage)) :
                        n < local.next /\ Reads(local.coverage)[n] = kind

\* A window reads both kinds of claims at once.
RebasingDone(local) ==
    Done(local, "rebasing") \/ (local.coverage = "WINDOW" /\ Done(local, "claimed"))

SeenProvenance == [present : SUBSET Session, rebasing : SUBSET Session,
                   rebased : [Session -> Id \cup {NoOwner}],
                   applied : [Session -> Id \cup {NoOwner}],
                   claimed : SUBSET Session]

Reader == [phase : {"idle", "pinned", "consumed", "asserted", "reading",
                    "reasserted", "bound"},
           version : Nat, rows : History, coverage : Coverage,
           sessions : SUBSET Session, next : Nat \ {0}, seen : SeenProvenance,
           basis : History]

\* As long as the pinned version is the latest, whatever the consumer took from
\* an unfinished change is still claimed, and the claim is in what it has seen.
PinnedReads ==
    /\ reader.basis = content
    /\ reader.phase \in {"consumed", "asserted", "reading"} =>
        /\ \A s \in Session : Tainted(s) => Dirty(s)
        /\ Done(reader, "rebased") => reader.seen.rebased = rebaseOwner
        /\ Done(reader, "applied") => reader.seen.applied = owner
        /\ reader.next = 1 => reader.seen.present = {}
        /\ RebasingDone(reader) => \A s \in Session :
             Tainted(s) /\ s \in RebaseClaimed => s \in reader.seen.rebasing
        /\ Done(reader, "claimed") => \A s \in Session :
             Tainted(s) /\ s \in AnyClaimed => s \in reader.seen.claimed

\* From the last read on, the pinned version's row of a session is the latest
\* one unless a rebase has made itself the owner of the session since.
BoundReads ==
    /\ \A s \in reader.sessions : ~Tainted(s)
    /\ \A s \in Session : reader.seen.rebased[s] \in receipt \cup {NoOwner}
    /\ \A s \in reader.sessions :
        /\ reader.basis[s] # NoRow
        /\ rebaseOwner[s] = reader.seen.rebased[s]
        => content[s] = reader.basis[s]

ReaderInv ==
    /\ reader \in Reader
    /\ reader.version <= version
    /\ reader.phase \in {"idle", "pinned", "consumed", "asserted"} =>
        reader.seen = NothingSeen /\ reader.next = 1
    /\ reader.phase \notin {"idle", "reasserted", "bound"} /\ reader.version = version =>
         PinnedReads
    /\ reader.phase \in {"reasserted", "bound"} => BoundReads

\* An event number is never used again.
EventsTicketed == \A i \in Id : lastEvent[i].ticket < ticket

QualifierType ==
    [phase : {"closed", "signed", "evaluating", "qualified"}, coverage : Coverage,
     sessions : SUBSET Session, fresh : BOOLEAN, blocks : SUBSET Nat,
     next : Nat \ {0}, seen : SeenProvenance]

\* While the signature stands, what was read is what is stored; only the rows of
\* a claimed append may have appeared since.
FreshReads ==
    LET S == qualifier.sessions
        seen == qualifier.seen
    IN  /\ qualifier.phase \in {"evaluating", "qualified"} =>
             qualifier.blocks = {k.ticket : k \in Unresolved}
        /\ Done(qualifier, "present") =>
             \A s \in S : \/ s \in seen.present <=> s \in Stored(market)
                          \/ /\ s \in AnyClaimed
                             /\ owner[s] = NoOwner /\ rebaseOwner[s] = NoOwner
        /\ Done(qualifier, "rebased") => \A s \in S : seen.rebased[s] = rebaseOwner[s]
        /\ Done(qualifier, "applied") => \A s \in S : seen.applied[s] = owner[s]
        /\ RebasingDone(qualifier) => seen.rebasing = RebaseClaimed \cap S
        /\ Done(qualifier, "claimed") => seen.claimed = AnyClaimed \cap S

QualifierInv ==
    /\ qualifier \in QualifierType
    /\ EventsTicketed
    /\ qualifier.phase \in {"closed", "signed"} => qualifier.next = 1
    /\ qualifier.phase = "evaluating" => qualifier.next <= Len(Reads(qualifier.coverage))
    /\ qualifier.phase = "qualified" => qualifier.next > Len(Reads(qualifier.coverage))
    /\ qualifier.fresh => FreshReads

-----------------------------------------------------------------------------
(* How a step moves the latest version and the owners of its sessions *)

\* At most a receipt is added: a finalization without new sessions.
KeepsContent == UNCHANGED <<version, content, owner, rebaseOwner>> /\ receipt \subseteq receipt'

\* The claimed rows of observation i become the next version; i owns them.
NewVersion(i) ==
    LET S == lastEvent[i].claim.sessions
        Owned(owned) == [s \in Session |-> IF s \in S THEN i ELSE owned[s]]
    IN  /\ i \in Id \ receipt /\ receipt' = receipt \cup {i} /\ version' = version + 1
        /\ \A s \in Session : s \notin S => content'[s] = content[s]
        /\ \A s \in S : s \in Session /\ content'[s] # NoRow
        /\ \/ /\ \A s \in S : content[s] = NoRow
              /\ owner' = Owned(owner) /\ rebaseOwner' = rebaseOwner
           \/ owner' = owner /\ rebaseOwner' = Owned(rebaseOwner)

\* Recording a committed append makes a new version of its rows.
LEMMA AppendVersions ==
    ASSUME TypeInv, CoreInv, NEW i \in OpenIntents, NEW f,
           lastEvent[i].kind = "INTENT", f.sessions = lastEvent[i].claim.sessions,
           f.content = Write(content, i.batch, f.sessions), RecordApplication(i, f)
    PROVE  KeepsContent \/ NewVersion(i)
<1>. DEFINE S == f.sessions
<1>1. i \in Id /\ i.batch \in Batch /\ content \in History
  BY DEF OpenIntents, Id, TypeInv, TypeOK, LogTypeOK
<1>2. S # {} /\ S \subseteq NewSessions(content, i.batch)
  BY <1>1 DEF CoreInv, IntentsExplainMarket, AppendClaimed
<1>3. \A s \in S : s \in Session /\ content[s] = NoRow /\ f.content[s] # NoRow
  BY <1>1, <1>2, AppendFacts
<1>4. \A s \in Session : s \notin S => f.content[s] = content[s]
  BY DEF Write
<1>5. CASE Finalizes(i, f)
  <2>1. /\ receipt' = receipt \cup {i} /\ version' = version + 1
        /\ content' = f.content /\ rebaseOwner' = rebaseOwner
        /\ owner' = [s \in Session |-> IF s \in S THEN i ELSE owner[s]]
    BY <1>2, <1>5 DEF RecordApplication
  <2>. QED
    BY <1>1, <1>3, <1>4, <1>5, <2>1 DEF NewVersion, Finalizes
<1>6. CASE ~Finalizes(i, f)
  BY <1>6 DEF RecordApplication, KeepsContent, logVars
<1>. QED
  BY <1>5, <1>6

\* Recording a committed rewrite does too.
LEMMA RebaseVersions ==
    ASSUME TypeInv, CoreInv, NEW i \in OpenIntents, NEW t,
           lastEvent[i].kind = "REBASE_INTENT",
           RecordRebase(i, lastEvent[i].claim, t)
    PROVE  KeepsContent \/ NewVersion(i)
<1>. DEFINE c == lastEvent[i].claim
            S == c.sessions
<1>1. i \in Id /\ IsRewrite(c, i.batch)
  BY DEF OpenIntents, CoreInv, IntentsExplainMarket, RewriteClaimed
<1>2. S \subseteq Stored(content) \cap Stored(i.batch.rows)
  BY <1>1 DEF IsRewrite
<1>3. \A s \in S : s \in Session /\ c.post[s] # NoRow
  BY <1>1, <1>2 DEF IsRewrite, Write, Stored
<1>4. \A s \in Session : s \notin S => c.post[s] = content[s]
  BY <1>1 DEF IsRewrite, Write
<1>5. CASE Rebases(i, c, t)
  BY <1>1, <1>3, <1>4, <1>5 DEF NewVersion, RecordRebase, Rebases, MayRebase
<1>6. CASE ~Rebases(i, c, t)
  BY <1>6 DEF RecordRebase, KeepsContent, logVars
<1>. QED
  BY <1>5, <1>6

\* Recovery of an intent makes its version or leaves the last.
LEMMA SettleVersions ==
    ASSUME TypeInv, CoreInv, NEW p, NEW i \in OpenIntents,
           SettleAppend(p, i) \/ SettleRebase(p, i)
    PROVE  KeepsContent \/ NewVersion(i)
<1>. USE CoreClaims
<1>1. CASE SettleAppend(p, i)
  <2>. DEFINE f == Reconciled(lastEvent[i].claim.sessions, market)
  <2>1. f.sessions = lastEvent[i].claim.sessions /\ f.content = market
        /\ lastEvent[i].kind = "INTENT"
    BY <1>1 DEF Reconciled, SettleAppend
  <2>2. CASE RowsPresent(i) /\ RecordApplication(i, f)
    BY <2>1, <2>2, AppendSettled, AppendVersions
  <2>3. CASE AbandonIntent(i)
    BY <2>3 DEF AbandonIntent, UnchangedApplication, KeepsContent
  <2>. QED
    BY <1>1, <2>2, <2>3 DEF SettleAppend
<1>2. CASE SettleRebase(p, i)
  BY <1>2, RebaseVersions
     DEF SettleRebase, AbandonIntent, UnchangedApplication, KeepsContent
<1>. QED
  BY <1>1, <1>2

\* Every step keeps the latest version or makes the next of a claimed change.
LEMMA VersionStep ==
    ASSUME MarketInv, Faultless, [Next]_vars
    PROVE  KeepsContent \/ \E i : NewVersion(i)
<1>. USE DEF At
<1>1. TypeInv /\ CoreInv
  BY DEF MarketInv, CoreInv
<1>2. KeepsContent \/ ~UnchangedApplication
  BY DEF KeepsContent, UnchangedApplication
<1>3. UNCHANGED logVars => UnchangedApplication
  BY DEF logVars, UnchangedApplication
<1>4. ASSUME NEW p \in Proc, Admission(p) PROVE KeepsContent \/ \E i : NewVersion(i)
  <2>. DEFINE i == job[p].id
              f == job[p].final
  <2>1. JobConsistent(p)
    BY DEF MarketInv, JobsConsistent
  <2>2. CASE FinalizeNoOp(p)
    <3>1. f.sessions = {} /\ RecordApplication(i, f)
      BY <2>2 DEF FinalizeNoOp
    <3>2. owner \in [Session -> Id \cup {NoOwner}]
      BY <1>1 DEF TypeInv, TypeOK, LogTypeOK
    <3>. QED
      BY <3>1, <3>2 DEF RecordApplication, KeepsContent, logVars
  <2>3. CASE FinalizeAppend(p)
    <3>1. RecordApplication(i, f) /\ job[p].phase = "committed"
      BY <2>3 DEF FinalizeAppend
    <3>2. CASE Finalizes(i, f)
      <4>1. /\ Claims(i, f) /\ f.content = Write(content, i.batch, f.sessions)
            /\ i \in Id
        BY <1>1, <2>1, <3>1, <3>2, IdentifiedJob
           DEF Finalizes, JobConsistent, JobsOK, TypeInv, TypeOK, StoreTypeOK, NoIdPhase
      <4>. QED
        BY <1>1, <3>1, <4>1, AppendVersions DEF Claims, OpenIntents, IntentKind
    <3>3. CASE ~Finalizes(i, f)
      BY <3>1, <3>3 DEF RecordApplication, KeepsContent, logVars
    <3>. QED
      BY <3>2, <3>3
  <2>4. CASE \E k \in OpenIntents : Settle(p, k)
    BY <1>1, <2>4, SettleVersions DEF Settle
  <2>5. CASE ReuseReceipt(p) \/ InvalidReceipt(p) \/ NoReceipt(p) \/ BindReadmission(p)
             \/ Lock(p) \/ Recovered(p) \/ AppendRows(p) \/ AppendFails(p)
    BY <1>2, <1>3, <2>5
       DEF ReuseReceipt, InvalidReceipt, NoReceipt, BindReadmission, Lock, AcquireLock,
           Recovered, AppendRows, AppendFails
  <2>6. CASE PersistReadmission(p) \/ Supersede(p) \/ Decide(p) \/ ClaimSessions(p)
             \/ AbandonAfterRollback(p)
    BY <1>2, <2>6
       DEF PersistReadmission, PersistObservation, Supersede, SupersedeOthers, Decide,
           RecordDecision, ClaimSessions, RecordIntent, AbandonAfterRollback, AbandonIntent
  <2>7. CASE (\E k \in OpenIntents : BlockAmbiguous(p, k)) \/ BlockMismatch(p)
             \/ BlockRevision(p)
    BY <1>2, <2>7 DEF BlockAmbiguous, BlockMismatch, BlockRevision, RecordBlock
  <2>. QED
    BY <1>4, <2>2, <2>3, <2>4, <2>5, <2>6, <2>7 DEF Admission
<1>5. ASSUME NEW p \in Proc, Reviewed(p) PROVE KeepsContent \/ \E i : NewVersion(i)
  <2>. DEFINE i == job[p].id
              c == job[p].claim
              t == job[p].ticket
  <2>1. JobConsistent(p)
    BY DEF MarketInv, JobsConsistent
  <2>2. CASE FinalizeRebase(p)
    <3>1. RecordRebase(i, c, t) /\ job[p].phase = "rebase_committed"
      BY <2>2 DEF FinalizeRebase
    <3>2. CASE Rebases(i, c, t)
      <4>1. lastEvent[i].kind = "REBASE_INTENT" /\ lastEvent[i].claim = c /\ i \in Id
        BY <1>1, <2>1, <3>1, <3>2, IdentifiedJob
           DEF Rebases, MayRebase, JobConsistent, JobsOK, TypeInv, TypeOK, StoreTypeOK,
               NoIdPhase
      <4>. QED
        BY <1>1, <3>1, <4>1, RebaseVersions DEF OpenIntents, IntentKind
    <3>3. CASE ~Rebases(i, c, t)
      BY <3>1, <3>3 DEF RecordRebase, KeepsContent, logVars
    <3>. QED
      BY <3>2, <3>3
  <2>3. CASE \E k \in OpenRebases : RebaseSettle(p, k) \/ RecoverySettle(p, k)
    BY <1>1, <2>3, SettleVersions
       DEF RebaseSettle, RecoverySettle, OpenRebases, OpenIntents, IntentKind
  <2>4. CASE \E k \in block : PlanRebase(p, k)
    BY <1>2, <1>3, <2>4 DEF PlanRebase
  <2>5. CASE LockRebase(p) \/ RefuseRebase(p) \/ ClaimRefused(p) \/ RewriteRows(p)
             \/ RewriteFails(p) \/ LockRecovery(p) \/ FinishRecovery(p)
    BY <1>2, <1>3, <2>5
       DEF LockRebase, AcquireLock, RefuseRebase, ClaimRefused, RewriteRows, RewriteFails,
           LockRecovery, FinishRecovery
  <2>6. CASE ClaimBlock(p)
    BY <1>2, <2>6 DEF ClaimBlock, RecordRebaseIntent
  <2>. QED
    BY <1>5, <2>2, <2>3, <2>4, <2>5, <2>6 DEF Reviewed
<1>6. ASSUME NEW p \in Proc, Call(p) \/ Crash(p) PROVE KeepsContent
  BY <1>2, <1>3, <1>6
     DEF Call, Crash, Observe, RequestRebase, RequestRecovery, PersistObservation
<1>7. ASSUME NEW k \in block, Review(k) PROVE KeepsContent
  BY <1>2, <1>7 DEF Review, ResolveBlock
<1>8. CASE UNCHANGED vars
  BY <1>2, <1>3, <1>8 DEF vars
<1>. QED
  BY <1>4, <1>5, <1>6, <1>7, <1>8 DEF Next, Progress, EditOutOfBand, Faultless

\* So versions only grow, and the same version is the same content.
LEMMA VersionsGrow ==
    ASSUME MarketInv, TypeInv', Faultless, [Next]_vars
    PROVE  /\ version <= version' /\ receipt \subseteq receipt'
           /\ version' = version => UNCHANGED <<content, owner, rebaseOwner>>
<1>1. version \in Nat
  BY DEF MarketInv, TypeInv, TypeOK, LogTypeOK
<1>. QED
  BY <1>1, VersionStep DEF KeepsContent, NewVersion

\* AttributionInv holds initially,
LEMMA AttributionInit ==
    ASSUME Init
    PROVE  AttributionInv
BY DEF Init, LogInit, AttributionInv

\* and every step keeps it.
LEMMA AttributionNext ==
    ASSUME MarketInv, Faultless, AttributionInv, [Next]_vars
    PROVE  AttributionInv'
<1>1. CASE KeepsContent
  BY <1>1 DEF KeepsContent, AttributionInv
<1>2. ASSUME NEW i, NewVersion(i) PROVE AttributionInv'
  <2>. DEFINE S == lastEvent[i].claim.sessions
  <2>1. \A s \in Session : s \in S => content'[s] # NoRow
    BY <1>2 DEF NewVersion
  <2>2. \A s \in Session : s \notin S =>
           /\ content'[s] = content[s] /\ owner'[s] = owner[s]
           /\ rebaseOwner'[s] = rebaseOwner[s]
    BY <1>2 DEF NewVersion
  <2>3. \A s \in Session : rebaseOwner'[s] \in {rebaseOwner[s], i}
    BY <1>2 DEF NewVersion
  <2>4. receipt' = receipt \cup {i}
    BY <1>2 DEF NewVersion
  <2>. QED
    BY <2>1, <2>2, <2>3, <2>4 DEF AttributionInv
<1>. QED
  BY <1>1, <1>2, VersionStep

\* What is stored of a session but not in the latest version is claimed: by a
\* rebase, or by an append of a session nobody owns.
LEMMA DirtyIsClaimed ==
    ASSUME MarketInv, AttributionInv, NEW s \in Session, Dirty(s)
    PROVE  \/ s \in RebaseClaimed
           \/ s \in AnyClaimed /\ owner[s] = NoOwner /\ rebaseOwner[s] = NoOwner
<1>. USE CoreClaims
<1>1. TypeInv /\ CoreInv
  BY DEF MarketInv, CoreInv
<1>2. PICK i \in OpenIntents : TRUE
  BY <1>1 DEF CoreInv, SettledMarketIsVersioned, Dirty
<1>. DEFINE S == lastEvent[i].claim.sessions
<1>3. market = Write(content, i.batch, S) /\ i \in Id /\ i.batch \in Batch
  BY <1>1, <1>2, ClaimedChange DEF Dirty
<1>4. s \in S
  BY <1>3 DEF Dirty, Write
<1>5. CASE lastEvent[i].kind = "REBASE_INTENT"
  BY <1>2, <1>3, <1>4, <1>5 DEF RebaseClaimed, OpenRebases
<1>6. CASE lastEvent[i].kind = "INTENT"
  <2>1. content \in History
    BY <1>1 DEF TypeInv, TypeOK, LogTypeOK
  <2>2. S # {} /\ S \subseteq NewSessions(content, i.batch)
    BY <1>1, <1>3, <1>6 DEF CoreInv, IntentsExplainMarket, AppendClaimed
  <2>3. \A u \in S : content[u] = NoRow
    BY <2>1, <2>2, NewAreBehind
  <2>4. s \in AnyClaimed
    BY <1>2, <1>4 DEF AnyClaimed
  <2>. QED
    BY <1>4, <2>3, <2>4 DEF AttributionInv
<1>. QED
  BY <1>2, <1>5, <1>6 DEF OpenIntents, IntentKind

\* Until the version moves, an unfinished change stays as it is.
LEMMA DirtyStays ==
    ASSUME MarketInv, Faultless, [Next]_vars, version' = version,
           NEW s \in Session, Dirty(s)
    PROVE  UNCHANGED <<market, AnyClaimed, RebaseClaimed>>
<1>1. TypeInv /\ CoreInv /\ market # content /\ version \in Nat
  BY DEF MarketInv, CoreInv, Dirty, TypeInv, TypeOK, LogTypeOK
<1>2. OpenIntents # {}
  BY <1>1 DEF CoreInv, SettledMarketIsVersioned
<1>3. QuietStep
  BY <1>1, <1>2, EveryStep
     DEF SafeAction, MarketAction, AttributingStep, AbandoningStep, ClaimingStep, WritingStep
<1>4. OpenIntents' = OpenIntents /\ \A i \in OpenIntents : lastEvent'[i] = lastEvent[i]
  BY <1>3 DEF QuietStep, OpenIntents
<1>5. OpenRebases' = OpenRebases /\ \A i \in OpenRebases : lastEvent'[i] = lastEvent[i]
  BY <1>3 DEF QuietStep, OpenRebases, IntentKind
<1>6. AnyClaimed' = AnyClaimed
  BY <1>4 DEF AnyClaimed
<1>7. RebaseClaimed' = RebaseClaimed
  BY <1>5 DEF RebaseClaimed
<1>. QED
  BY <1>3, <1>6, <1>7 DEF QuietStep

-----------------------------------------------------------------------------
(* The reads of a dependency *)

\* Which reads have been made, by the number of the next.
LEMMA ReadsDone ==
    ASSUME NEW local, local.coverage \in Coverage, local.next \in Nat \ {0}
    PROVE  /\ Done(local, "present") <=> local.next > 1
           /\ local.coverage = "POINT" =>
                /\ Len(Reads(local.coverage)) = 5
                /\ Reads(local.coverage) =
                     <<"present", "rebasing", "rebased", "applied", "claimed">>
                /\ RebasingDone(local) <=> local.next > 2
                /\ Done(local, "rebased") <=> local.next > 3
                /\ Done(local, "applied") <=> local.next > 4
                /\ Done(local, "claimed") <=> local.next > 5
           /\ local.coverage = "WINDOW" =>
                /\ Len(Reads(local.coverage)) = 4
                /\ Reads(local.coverage) = <<"present", "applied", "rebased", "claimed">>
                /\ RebasingDone(local) <=> local.next > 4
                /\ Done(local, "rebased") <=> local.next > 3
                /\ Done(local, "applied") <=> local.next > 2
                /\ Done(local, "claimed") <=> local.next > 4
<1>1. CASE local.coverage = "POINT"
  <2>1. Reads(local.coverage) = <<"present", "rebasing", "rebased", "applied", "claimed">>
    BY <1>1 DEF Reads
  <2>2. \A kind : Done(local, kind) <=>
           \E n \in 1 .. 5 : n < local.next /\ Reads(local.coverage)[n] = kind
    BY <2>1 DEF Done
  <2>. QED
    BY <1>1, <2>1, <2>2 DEF RebasingDone
<1>2. CASE local.coverage = "WINDOW"
  <2>1. Reads(local.coverage) = <<"present", "applied", "rebased", "claimed">>
    BY <1>2 DEF Reads
  <2>2. \A kind : Done(local, kind) <=>
           \E n \in 1 .. 4 : n < local.next /\ Reads(local.coverage)[n] = kind
    BY <2>1 DEF Done
  <2>. QED
    BY <1>2, <2>1, <2>2 DEF RebasingDone
<1>. QED
  BY <1>1, <1>2 DEF Coverage

-----------------------------------------------------------------------------
(* The consumer *)

\* What other processes do leaves the consumer's invariant as it was.
LEMMA ReaderKept ==
    ASSUME MarketInv, TypeInv', Faultless, AttributionInv, AttributionInv', ReaderInv,
           [Next]_vars, reader' = reader
    PROVE  ReaderInv'
<1>1. /\ version \in Nat /\ version' \in Nat /\ version <= version'
      /\ reader \in Reader /\ reader.version \in Nat /\ reader.version <= version
  BY VersionsGrow DEF MarketInv, TypeInv, TypeOK, LogTypeOK, ReaderInv, Reader
<1>2. reader.version <= version'
  BY <1>1
<1>3. ASSUME PinnedReads, reader.version = version, reader.version = version'
      PROVE  PinnedReads'
  <2>1. UNCHANGED <<content, owner, rebaseOwner>>
    BY <1>3, VersionsGrow
  <2>2. ASSUME NEW s \in Session, Dirty(s)
        PROVE  Dirty(s)' /\ RebaseClaimed' = RebaseClaimed /\ AnyClaimed' = AnyClaimed
    BY <1>3, <2>1, <2>2, DirtyStays DEF Dirty
  <2>3. \A s \in Session : Tainted(s)' <=> Tainted(s)
    BY DEF Tainted
  <2>4. \A kind : Done(reader, kind)' <=> Done(reader, kind)
    BY DEF Done
  <2>5. RebasingDone(reader)' <=> RebasingDone(reader)
    BY <2>4 DEF RebasingDone
  <2>. QED
    BY <1>3, <2>1, <2>2, <2>3, <2>4, <2>5 DEF PinnedReads
<1>4. ASSUME BoundReads PROVE BoundReads'
  <2>1. \A s \in Session : Tainted(s)' <=> Tainted(s)
    BY DEF Tainted
  <2>2. receipt \subseteq receipt'
    BY VersionsGrow
  <2>3. reader.sessions \subseteq Session
    BY <1>1 DEF Reader
  <2>4. ASSUME NEW s \in reader.sessions, reader.basis[s] # NoRow,
               rebaseOwner'[s] = reader.seen.rebased[s]
        PROVE  content'[s] = reader.basis[s]
    <3>1. s \in Session /\ reader.seen.rebased[s] \in receipt \cup {NoOwner}
      BY <1>4, <2>3 DEF BoundReads
    <3>2. CASE KeepsContent
      BY <1>4, <2>4, <3>2 DEF KeepsContent, BoundReads
    <3>3. ASSUME NEW i, NewVersion(i) PROVE content'[s] = reader.basis[s]
      <4>. DEFINE S == lastEvent[i].claim.sessions
      <4>1. i \notin receipt /\ i # NoOwner
        BY <3>3, NoOwnerAssumption DEF NewVersion
      <4>2. CASE rebaseOwner' = rebaseOwner /\ \A u \in S : content[u] = NoRow
        <5>1. content[s] = reader.basis[s]
          BY <1>4, <2>4, <4>2 DEF BoundReads
        <5>. QED
          BY <2>4, <3>1, <3>3, <4>2, <5>1 DEF NewVersion
      <4>3. CASE rebaseOwner' = [u \in Session |-> IF u \in S THEN i ELSE rebaseOwner[u]]
        <5>1. s \notin S /\ rebaseOwner[s] = reader.seen.rebased[s]
          BY <2>4, <3>1, <4>1, <4>3
        <5>. QED
          BY <1>4, <2>4, <3>1, <3>3, <5>1 DEF NewVersion, BoundReads
      <4>. QED
        BY <3>3, <4>2, <4>3 DEF NewVersion
    <3>. QED
      BY <3>2, <3>3, VersionStep
  <2>. QED
    BY <1>4, <2>1, <2>2, <2>3, <2>4 DEF BoundReads
<1>5. reader.version = version' => reader.version = version
  BY <1>1
<1>. QED
  BY <1>1, <1>2, <1>3, <1>4, <1>5 DEF ReaderInv

\* The stored values are of their types.
LEMMA StoredTypes ==
    ASSUME TypeInv
    PROVE  /\ market \in History /\ content \in History /\ version \in Nat
           /\ owner \in [Session -> Id \cup {NoOwner}]
           /\ rebaseOwner \in [Session -> Id \cup {NoOwner}]
           /\ RebaseClaimed \subseteq Session /\ AnyClaimed \subseteq Session
           /\ RebaseClaimed \subseteq AnyClaimed
<1>1. /\ market \in History /\ content \in History /\ version \in Nat
      /\ owner \in [Session -> Id \cup {NoOwner}]
      /\ rebaseOwner \in [Session -> Id \cup {NoOwner}]
      /\ lastEvent \in [Id -> Event]
  BY DEF TypeInv, TypeOK, LogTypeOK, StoreTypeOK
<1>2. \A i \in Id : lastEvent[i].claim.sessions \subseteq Session
  BY <1>1 DEF Event, Claim
<1>3. OpenIntents \subseteq Id /\ OpenRebases \subseteq OpenIntents
  BY DEF OpenIntents, OpenRebases, IntentKind
<1>4. AnyClaimed \subseteq Session /\ RebaseClaimed \subseteq AnyClaimed
  BY <1>2, <1>3 DEF AnyClaimed, RebaseClaimed
<1>. QED
  BY <1>1, <1>4

\* The empty provenance and the idle consumer are of their types.
LEMMA IdleTypes ==
    /\ NothingSeen \in SeenProvenance
    /\ NothingSeen.present = {}
    /\ IdleReader \in Reader
    /\ IdleReader.phase = "idle" /\ IdleReader.version = 0
    /\ IdleReader.next = 1 /\ IdleReader.coverage = "POINT"
    /\ IdleReader.seen = NothingSeen
<1>1. EmptyHistory \in History
  BY DEF EmptyHistory, History
<1>2. NothingSeen \in SeenProvenance /\ NothingSeen.present = {}
  BY DEF NothingSeen, SeenProvenance
<1>. QED
  BY <1>1, <1>2 DEF IdleReader, Reader, Coverage

\* A consumer that gave up has nothing to keep.
LEMMA ReaderRefused ==
    ASSUME TypeInv', reader' = IdleReader
    PROVE  ReaderInv'
<1>1. version' \in Nat
  BY DEF TypeInv, TypeOK, LogTypeOK
<1>. QED
  BY <1>1, IdleTypes DEF ReaderInv

\* Pinning the version, and reading the rows.
LEMMA PinConsume ==
    ASSUME TypeInv, ReaderInv, Pin \/ Consume
    PROVE  ReaderInv'
<1>1. market \in History /\ content \in History /\ version \in Nat
  BY StoredTypes
<1>2. UNCHANGED <<version, content, rebaseOwner, owner, receipt, market>>
  BY DEF Pin, Consume, vars, logVars, storeVars
<1>3. CASE Pin
  <2>1. reader' = [IdleReader EXCEPT !.phase = "pinned", !.version = version,
                                     !.basis = content]
    BY <1>3 DEF Pin
  <2>2. reader' \in Reader /\ reader'.phase = "pinned" /\ reader'.version = version
        /\ reader'.basis = content
    BY <1>1, <2>1, IdleTypes DEF IdleReader, Reader
  <2>3. reader'.seen = NothingSeen /\ reader'.next = 1
    BY <2>1, IdleTypes DEF IdleReader
  <2>4. PinnedReads'
    BY <1>2, <2>2 DEF PinnedReads
  <2>. QED
    BY <1>1, <1>2, <2>2, <2>3, <2>4 DEF ReaderInv
<1>4. CASE Consume
  <2>1. /\ reader \in Reader /\ reader.phase = "pinned"
        /\ reader' = [reader EXCEPT !.phase = "consumed", !.rows = market]
        /\ reader.seen = NothingSeen /\ reader.next = 1
    BY <1>4 DEF Consume, ReaderInv
  <2>2. /\ reader' \in Reader /\ reader'.phase = "consumed" /\ reader'.rows = market
        /\ reader'.version = reader.version /\ reader'.basis = reader.basis
        /\ reader'.seen = reader.seen /\ reader'.next = reader.next
        /\ reader'.coverage = reader.coverage
    BY <1>1, <2>1 DEF Reader
  <2>4. reader'.seen = NothingSeen /\ reader'.next = 1 /\ reader'.coverage \in Coverage
    BY <2>1, <2>2 DEF Reader
  <2>5. ASSUME reader.version = version PROVE PinnedReads'
    <3>1. reader'.basis = content
      BY <2>1, <2>2, <2>5 DEF ReaderInv, PinnedReads
    <3>2. \A s \in Session : Tainted(s)' => Dirty(s)'
      BY <1>2, <2>2, <2>4, <3>1, IdleTypes DEF Tainted, Dirty
    <3>3. /\ ~Done(reader, "rebased")' /\ ~Done(reader, "applied")'
          /\ ~RebasingDone(reader)' /\ ~Done(reader, "claimed")'
      <4>1. PICK local : local = reader'
        OBVIOUS
      <4>2. ~Done(local, "rebased") /\ ~Done(local, "applied")
            /\ ~RebasingDone(local) /\ ~Done(local, "claimed")
        BY <2>4, <4>1, ReadsDone DEF Coverage
      <4>. QED
        BY <4>1, <4>2 DEF Done, RebasingDone
    <3>. QED
      BY <1>2, <2>4, <3>1, <3>2, <3>3, IdleTypes DEF PinnedReads
  <2>. QED
    BY <1>2, <2>1, <2>2, <2>4, <2>5 DEF ReaderInv
<1>. QED
  BY <1>3, <1>4

\* What the next read adds to what has been read.
LEMMA NextRead ==
    ASSUME NEW local, NEW moved,
           local.coverage \in Coverage, local.next \in Nat \ {0},
           local.next <= Len(Reads(local.coverage)),
           moved.coverage = local.coverage, moved.next = local.next + 1
    PROVE  LET kind == Reads(local.coverage)[local.next]
           IN  /\ kind \in {"present", "rebasing", "rebased", "applied", "claimed"}
               /\ kind = "present" <=> local.next = 1
               /\ \A k \in {"present", "rebased", "applied", "claimed"} :
                    Done(moved, k) <=> Done(local, k) \/ k = kind
               /\ RebasingDone(moved) <=>
                    \/ RebasingDone(local) \/ kind = "rebasing"
                    \/ local.coverage = "WINDOW" /\ kind = "claimed"
<1>1. moved.coverage \in Coverage /\ moved.next \in Nat \ {0}
  OBVIOUS
<1>2. CASE local.coverage = "POINT"
  <2>1. Reads(local.coverage) = <<"present", "rebasing", "rebased", "applied", "claimed">>
    BY <1>2 DEF Reads
  <2>2. /\ Done(local, "present") <=> local.next > 1
        /\ RebasingDone(local) <=> local.next > 2
        /\ Done(local, "rebased") <=> local.next > 3
        /\ Done(local, "applied") <=> local.next > 4
        /\ Done(local, "claimed") <=> local.next > 5
    BY <1>2, ReadsDone
  <2>3. /\ Done(moved, "present") <=> local.next + 1 > 1
        /\ RebasingDone(moved) <=> local.next + 1 > 2
        /\ Done(moved, "rebased") <=> local.next + 1 > 3
        /\ Done(moved, "applied") <=> local.next + 1 > 4
        /\ Done(moved, "claimed") <=> local.next + 1 > 5
    BY <1>1, <1>2, ReadsDone
  <2>4. \/ local.next = 1
        \/ local.next = 2
        \/ local.next = 3
        \/ local.next = 4
        \/ local.next = 5
    BY <2>1
  <2>5. CASE local.next = 1
    <3>1. Reads(local.coverage)[local.next] = "present"
      BY <2>1, <2>5
    <3>. QED
      BY <1>2, <2>2, <2>3, <2>5, <3>1
  <2>6. CASE local.next = 2
    <3>1. Reads(local.coverage)[local.next] = "rebasing"
      BY <2>1, <2>6
    <3>. QED
      BY <1>2, <2>2, <2>3, <2>6, <3>1
  <2>7. CASE local.next = 3
    <3>1. Reads(local.coverage)[local.next] = "rebased"
      BY <2>1, <2>7
    <3>. QED
      BY <1>2, <2>2, <2>3, <2>7, <3>1
  <2>8. CASE local.next = 4
    <3>1. Reads(local.coverage)[local.next] = "applied"
      BY <2>1, <2>8
    <3>. QED
      BY <1>2, <2>2, <2>3, <2>8, <3>1
  <2>9. CASE local.next = 5
    <3>1. Reads(local.coverage)[local.next] = "claimed"
      BY <2>1, <2>9
    <3>. QED
      BY <1>2, <2>2, <2>3, <2>9, <3>1
  <2>. QED
    BY <2>4, <2>5, <2>6, <2>7, <2>8, <2>9
<1>3. CASE local.coverage = "WINDOW"
  <2>1. Reads(local.coverage) = <<"present", "applied", "rebased", "claimed">>
    BY <1>3 DEF Reads
  <2>2. /\ Done(local, "present") <=> local.next > 1
        /\ RebasingDone(local) <=> local.next > 4
        /\ Done(local, "rebased") <=> local.next > 3
        /\ Done(local, "applied") <=> local.next > 2
        /\ Done(local, "claimed") <=> local.next > 4
    BY <1>3, ReadsDone
  <2>3. /\ Done(moved, "present") <=> local.next + 1 > 1
        /\ RebasingDone(moved) <=> local.next + 1 > 4
        /\ Done(moved, "rebased") <=> local.next + 1 > 3
        /\ Done(moved, "applied") <=> local.next + 1 > 2
        /\ Done(moved, "claimed") <=> local.next + 1 > 4
    BY <1>1, <1>3, ReadsDone
  <2>4. \/ local.next = 1
        \/ local.next = 2
        \/ local.next = 3
        \/ local.next = 4
    BY <2>1
  <2>5. CASE local.next = 1
    <3>1. Reads(local.coverage)[local.next] = "present"
      BY <2>1, <2>5
    <3>. QED
      BY <1>3, <2>2, <2>3, <2>5, <3>1
  <2>6. CASE local.next = 2
    <3>1. Reads(local.coverage)[local.next] = "applied"
      BY <2>1, <2>6
    <3>. QED
      BY <1>3, <2>2, <2>3, <2>6, <3>1
  <2>7. CASE local.next = 3
    <3>1. Reads(local.coverage)[local.next] = "rebased"
      BY <2>1, <2>7
    <3>. QED
      BY <1>3, <2>2, <2>3, <2>7, <3>1
  <2>8. CASE local.next = 4
    <3>1. Reads(local.coverage)[local.next] = "claimed"
      BY <2>1, <2>8
    <3>. QED
      BY <1>3, <2>2, <2>3, <2>8, <3>1
  <2>. QED
    BY <2>4, <2>5, <2>6, <2>7, <2>8
<1>. QED
  BY <1>2, <1>3 DEF Coverage

\* Before the first read nothing has been read.
LEMMA NothingDone ==
    ASSUME NEW local, local.coverage \in Coverage, local.next = 1
    PROVE  /\ ~RebasingDone(local)
           /\ \A k \in {"present", "rebased", "applied", "claimed"} : ~Done(local, k)
BY ReadsDone DEF Coverage

\* After the last read everything has been.
LEMMA AllDone ==
    ASSUME NEW local, local.coverage \in Coverage, local.next \in Nat \ {0},
           local.next > Len(Reads(local.coverage))
    PROVE  /\ RebasingDone(local)
           /\ \A k \in {"present", "rebased", "applied", "claimed"} : Done(local, k)
<1>1. CASE local.coverage = "POINT"
  <2>1. Len(Reads(local.coverage)) = 5
    BY <1>1 DEF Reads
  <2>2. local.next > 5
    BY <2>1
  <2>. QED
    BY <1>1, <2>2, ReadsDone
<1>2. CASE local.coverage = "WINDOW"
  <2>1. Len(Reads(local.coverage)) = 4
    BY <1>2 DEF Reads
  <2>2. local.next > 4
    BY <2>1
  <2>. QED
    BY <1>2, <2>2, ReadsDone
<1>. QED
  BY <1>1, <1>2 DEF Coverage

\* Reading the version again, and choosing the dependency.
LEMMA AssertDepend ==
    ASSUME TypeInv, TypeInv', ReaderInv,
           \/ AssertPinned("consumed", "asserted")
           \/ \E c \in Coverage, s \in Session : Depend(c, s)
    PROVE  ReaderInv'
<1>1. CASE reader' = IdleReader
  BY <1>1, ReaderRefused
<1>2. CASE reader' # IdleReader
  <2>1. UNCHANGED <<version, content, rebaseOwner, owner, receipt, market>>
        /\ RebaseClaimed' = RebaseClaimed /\ AnyClaimed' = AnyClaimed
    <3>1. UNCHANGED vars
      BY DEF AssertPinned, Depend
    <3>. QED
      BY <3>1 DEF vars, logVars, storeVars, RebaseClaimed, AnyClaimed, OpenRebases,
                  OpenIntents
  <2>2. reader \in Reader /\ reader.phase \in {"consumed", "asserted"}
        /\ reader.seen = NothingSeen /\ reader.next = 1
    BY DEF AssertPinned, Depend, ReaderInv
  <2>3. /\ reader' \in Reader /\ reader'.phase \in {"asserted", "reading"}
        /\ reader'.rows = reader.rows /\ reader'.version = reader.version
        /\ reader'.basis = reader.basis /\ reader'.seen = reader.seen
        /\ reader'.next = reader.next
    <3>1. CASE AssertPinned("consumed", "asserted")
      BY <1>2, <2>2, <3>1 DEF AssertPinned, Step, Refuse, Reader
    <3>2. ASSUME NEW c \in Coverage, NEW s \in Session, Depend(c, s)
          PROVE  /\ reader' \in Reader /\ reader'.phase = "reading"
                 /\ reader'.rows = reader.rows /\ reader'.version = reader.version
                 /\ reader'.basis = reader.basis /\ reader'.seen = reader.seen
                 /\ reader'.next = reader.next
      <4>1. {s} \subseteq Session /\ 1 .. s \subseteq Session
        BY SessionsAssumption DEF Session
      <4>. QED
        BY <2>2, <3>2, <4>1 DEF Depend, Reader
    <3>. QED
      BY <3>1, <3>2
  <2>4. ASSUME reader.version = version PROVE PinnedReads'
    <3>1. PinnedReads
      BY <2>2, <2>4 DEF ReaderInv
    <3>2. PICK local : local = reader'
      OBVIOUS
    <3>3. ~RebasingDone(local)
          /\ \A k \in {"present", "rebased", "applied", "claimed"} : ~Done(local, k)
      BY <2>2, <2>3, <3>2, NothingDone DEF Reader
    <3>4. ~RebasingDone(reader)'
          /\ ~Done(reader, "rebased")' /\ ~Done(reader, "applied")' /\ ~Done(reader, "claimed")'
      BY <3>2, <3>3 DEF Done, RebasingDone
    <3>5. \A s \in Session : (Tainted(s)' <=> Tainted(s)) /\ (Dirty(s)' <=> Dirty(s))
      BY <2>1, <2>3 DEF Tainted, Dirty
    <3>. QED
      BY <2>1, <2>2, <2>3, <3>1, <3>4, <3>5 DEF PinnedReads
  <2>. QED
    BY <2>1, <2>2, <2>3, <2>4 DEF ReaderInv
<1>. QED
  BY <1>1, <1>2

\* A read of the provenance.
LEMMA ReaderReads ==
    ASSUME TypeInv, TypeInv', ReaderInv, Read
    PROVE  ReaderInv'
<1>0. PICK kind : kind = Reads(reader.coverage)[reader.next]
  OBVIOUS
<1>1. UNCHANGED <<version, content, rebaseOwner, owner, receipt, market>>
      /\ RebaseClaimed' = RebaseClaimed /\ AnyClaimed' = AnyClaimed
  BY DEF Read, vars, logVars, storeVars, RebaseClaimed, AnyClaimed, OpenRebases,
         OpenIntents
<1>2. /\ reader \in Reader /\ reader.phase = "reading" /\ reader.version <= version
      /\ reader.next <= Len(Reads(reader.coverage))
  BY DEF Read, ReaderInv
<1>3. /\ reader.seen \in SeenProvenance /\ reader.coverage \in Coverage
      /\ reader.next \in Nat \ {0}
  BY <1>2 DEF Reader
<1>4. PICK seen :
      /\ reader' = [reader EXCEPT !.next = reader.next + 1, !.seen = seen]
      /\ kind = "present" => seen = [reader.seen EXCEPT !.present = Stored(market)]
      /\ kind = "rebasing" => seen = [reader.seen EXCEPT !.rebasing = RebaseClaimed]
      /\ kind = "rebased" => seen = [reader.seen EXCEPT !.rebased = rebaseOwner]
      /\ kind = "applied" => seen = [reader.seen EXCEPT !.applied = owner]
      /\ kind = "claimed" =>
           seen = [reader.seen EXCEPT !.claimed = AnyClaimed,
                     !.rebasing = IF reader.coverage = "WINDOW"
                                  THEN RebaseClaimed ELSE @]
  <2>1. PICK seen :
         seen = CASE kind = "present" -> [reader.seen EXCEPT !.present = Stored(market)]
                  [] kind = "rebasing" -> [reader.seen EXCEPT !.rebasing = RebaseClaimed]
                  [] kind = "rebased" -> [reader.seen EXCEPT !.rebased = rebaseOwner]
                  [] kind = "applied" -> [reader.seen EXCEPT !.applied = owner]
                  [] kind = "claimed" ->
                       [reader.seen EXCEPT !.claimed = AnyClaimed,
                                           !.rebasing = IF reader.coverage = "WINDOW"
                                                        THEN RebaseClaimed ELSE @]
    OBVIOUS
  <2>2. reader' = [reader EXCEPT !.next = reader.next + 1, !.seen = seen]
    BY <1>0, <2>1 DEF Read
  <2>. QED
    BY <2>1, <2>2
<1>5. PICK local : local = reader'
  OBVIOUS
<1>6. local.coverage = reader.coverage /\ local.next = reader.next + 1 /\ local.seen = seen
      /\ local.phase = "reading" /\ local.version = reader.version
      /\ local.rows = reader.rows /\ local.basis = reader.basis
  BY <1>2, <1>4, <1>5 DEF Reader
<1>7. /\ kind \in {"present", "rebasing", "rebased", "applied", "claimed"}
      /\ kind = "present" <=> reader.next = 1
      /\ \A k \in {"present", "rebased", "applied", "claimed"} :
            Done(local, k) <=> Done(reader, k) \/ k = kind
      /\ RebasingDone(local) <=>
            \/ RebasingDone(reader) \/ kind = "rebasing"
            \/ reader.coverage = "WINDOW" /\ kind = "claimed"
  BY <1>0, <1>2, <1>3, <1>6, NextRead
<1>8. seen \in SeenProvenance
  <2>1. Stored(market) \subseteq Session
    BY DEF Stored
  <2>2. PICK old : old = reader.seen
    OBVIOUS
  <2>3. old \in SeenProvenance
    BY <1>3, <2>2
  <2>4. CASE kind = "present"
    BY ONLY <1>4, <2>1, <2>2, <2>3, <2>4 DEF SeenProvenance
  <2>5. CASE kind = "rebasing"
    BY ONLY <1>4, <2>2, <2>3, <2>5, StoredTypes, TypeInv DEF SeenProvenance
  <2>6. CASE kind = "rebased"
    BY ONLY <1>4, <2>2, <2>3, <2>6, StoredTypes, TypeInv DEF SeenProvenance
  <2>7. CASE kind = "applied"
    BY ONLY <1>4, <2>2, <2>3, <2>7, StoredTypes, TypeInv DEF SeenProvenance
  <2>8. CASE kind = "claimed"
    BY ONLY <1>4, <2>2, <2>3, <2>8, StoredTypes, TypeInv DEF SeenProvenance
  <2>. QED
    BY <1>7, <2>4, <2>5, <2>6, <2>7, <2>8
<1>9. local \in Reader
  <2>1. local = [reader EXCEPT !.next = reader.next + 1, !.seen = seen]
    BY <1>4, <1>5
  <2>2. reader.next + 1 \in Nat \ {0}
    BY <1>3
  <2>3. PICK next : next = reader.next + 1
    OBVIOUS
  <2>4. next \in Nat \ {0} /\ local = [reader EXCEPT !.next = next, !.seen = seen]
    BY <2>1, <2>2, <2>3
  <2>5. reader \in Reader
    BY <1>2
  <2>. QED
    BY ONLY <1>8, <2>4, <2>5 DEF Reader
<1>10. ASSUME reader.version = version PROVE PinnedReads'
  <2>1. PinnedReads /\ reader.basis = content
    BY <1>2, <1>10 DEF ReaderInv, PinnedReads
  <2>2. /\ Done(reader, "rebased")' <=> Done(local, "rebased")
        /\ Done(reader, "applied")' <=> Done(local, "applied")
        /\ Done(reader, "claimed")' <=> Done(local, "claimed")
        /\ RebasingDone(reader)' <=> RebasingDone(local)
    BY <1>5 DEF Done, RebasingDone
  <2>3. \A s \in Session : Dirty(s)' <=> Dirty(s)
    BY <1>1 DEF Dirty
  <2>4. reader'.next # 1
    BY <1>3, <1>5, <1>6
  <2>5. CASE kind = "present"
    <3>1. ~RebasingDone(reader)
          /\ \A k \in {"present", "rebased", "applied", "claimed"} : ~Done(reader, k)
      BY <1>3, <1>7, <2>5, NothingDone
    <3>2. \A s \in Session : Tainted(s)' =>
            reader.rows[s] # reader.basis[s] \/ (market[s] # NoRow /\ content[s] = NoRow)
      BY <1>3, <1>4, <1>5, <1>6, <2>1, <2>5 DEF Tainted, Stored, SeenProvenance
    <3>3. \A s \in Session : Tainted(s)' => Dirty(s)
      BY <1>2, <2>1, <3>2 DEF PinnedReads, Tainted, Dirty
    <3>. QED
      BY <1>1, <1>5, <1>6, <1>7, <2>1, <2>2, <2>3, <2>4, <2>5, <3>1, <3>3 DEF PinnedReads
  <2>6. CASE kind # "present"
    <3>1. seen.present = reader.seen.present
      BY <1>3, <1>4, <1>7, <2>6 DEF SeenProvenance
    <3>2. \A s \in Session : Tainted(s)' <=> Tainted(s)
      BY <1>5, <1>6, <3>1 DEF Tainted
    <3>3. /\ kind # "rebased" => seen.rebased = reader.seen.rebased
          /\ kind # "applied" => seen.applied = reader.seen.applied
          /\ kind # "claimed" => seen.claimed = reader.seen.claimed
          /\ kind = "rebased" => seen.rebased = rebaseOwner
          /\ kind = "applied" => seen.applied = owner
          /\ kind = "claimed" => seen.claimed = AnyClaimed
          /\ seen.rebasing \in {RebaseClaimed, reader.seen.rebasing}
          /\ kind = "rebasing" \/ (reader.coverage = "WINDOW" /\ kind = "claimed") =>
                seen.rebasing = RebaseClaimed
      BY <1>3, <1>4, <1>7, <2>6 DEF SeenProvenance
    <3>4. reader'.seen = seen /\ reader'.basis = reader.basis /\ reader'.phase = "reading"
      BY <1>5, <1>6
    <3>5. /\ \A s \in Session : Tainted(s) => Dirty(s)
          /\ Done(reader, "rebased") => reader.seen.rebased = rebaseOwner
          /\ Done(reader, "applied") => reader.seen.applied = owner
          /\ RebasingDone(reader) => \A s \in Session :
               Tainted(s) /\ s \in RebaseClaimed => s \in reader.seen.rebasing
          /\ Done(reader, "claimed") => \A s \in Session :
               Tainted(s) /\ s \in AnyClaimed => s \in reader.seen.claimed
      BY <1>2, <2>1 DEF PinnedReads
    <3>6. RebasingDone(reader)' => \A s \in Session :
               Tainted(s)' /\ s \in RebaseClaimed' => s \in reader'.seen.rebasing
      BY <1>1, <1>7, <2>2, <3>2, <3>3, <3>4, <3>5
    <3>7. Done(reader, "claimed")' => \A s \in Session :
               Tainted(s)' /\ s \in AnyClaimed' => s \in reader'.seen.claimed
      BY <1>1, <1>7, <2>2, <3>2, <3>3, <3>4, <3>5
    <3>8. /\ Done(reader, "rebased")' => reader'.seen.rebased = rebaseOwner'
          /\ Done(reader, "applied")' => reader'.seen.applied = owner'
      BY <1>1, <1>7, <2>2, <3>3, <3>4, <3>5
    <3>. QED
      BY <1>1, <2>1, <2>3, <2>4, <3>2, <3>4, <3>5, <3>6, <3>7, <3>8 DEF PinnedReads
  <2>. QED
    BY <2>5, <2>6
<1>. QED
  BY <1>1, <1>2, <1>5, <1>6, <1>9, <1>10 DEF ReaderInv

\* A claim seen of a session nobody was seen to own leaves it pending.
LEMMA SeenPendingOrigin ==
    ASSUME NEW seen, NEW s,
           \/ s \in seen.rebasing
           \/ seen.rebased[s] = NoOwner /\ seen.applied[s] = NoOwner /\ s \in seen.claimed
    PROVE  Origin(seen, s) = "PENDING_APPLICATION"
BY DEF Origin

\* A binding may rest only on sessions that were seen to be present.
LEMMA AttributedIsPresent ==
    ASSUME NEW seen, NEW s, Origin(seen, s) \in Attributable
    PROVE  /\ s \in seen.present
           /\ Origin(seen, s) = "REBASED_HISTORY" <=> seen.rebased[s] # NoOwner
BY DEF Origin, Attributable

\* The last read, and the binding.
LEMMA EndBind ==
    ASSUME MarketInv, TypeInv', AttributionInv, ReaderInv, EndReads \/ Bind
    PROVE  ReaderInv'
<1>1. CASE reader' = IdleReader
  BY <1>1, ReaderRefused
<1>2. CASE reader' # IdleReader
  <2>1. UNCHANGED <<version, content, rebaseOwner, owner, receipt, market>>
    <3>1. UNCHANGED vars
      BY DEF EndReads, Bind
    <3>. QED
      BY <3>1 DEF vars, logVars, storeVars
  <2>2. reader \in Reader /\ reader.phase \in {"reading", "reasserted"}
        /\ reader.version <= version
    BY DEF EndReads, Bind, ReaderInv
  <2>3. PICK phase \in {"reasserted", "bound"} : reader' = [reader EXCEPT !.phase = phase]
    BY <1>2 DEF EndReads, Bind, Step, Refuse
  <2>4. /\ reader' \in Reader /\ reader'.phase \in {"reasserted", "bound"}
        /\ reader'.rows = reader.rows /\ reader'.version = reader.version
        /\ reader'.basis = reader.basis /\ reader'.seen = reader.seen
        /\ reader'.sessions = reader.sessions
    BY <2>2, <2>3 DEF Reader
  <2>5. BoundReads
    <3>1. CASE Bind
      BY <3>1 DEF Bind, ReaderInv
    <3>2. CASE EndReads
      <4>1. /\ reader.phase = "reading" /\ reader.version = version /\ ~SeenPending
            /\ reader.next > Len(Reads(reader.coverage))
        BY <1>2, <3>2 DEF EndReads, Refuse
      <4>2. PinnedReads
        BY <4>1 DEF ReaderInv
      <4>3. /\ RebasingDone(reader) /\ Done(reader, "rebased")
            /\ Done(reader, "applied") /\ Done(reader, "claimed")
        <5>1. reader.coverage \in Coverage /\ reader.next \in Nat \ {0}
          BY <2>2 DEF Reader
        <5>. QED
          BY <4>1, <5>1, AllDone
      <4>4. /\ reader.basis = content
            /\ reader.seen.rebased = rebaseOwner /\ reader.seen.applied = owner
            /\ \A s \in Session : Tainted(s) => Dirty(s)
            /\ \A s \in Session :
                 Tainted(s) /\ s \in RebaseClaimed => s \in reader.seen.rebasing
            /\ \A s \in Session :
                 Tainted(s) /\ s \in AnyClaimed => s \in reader.seen.claimed
        BY <4>1, <4>2, <4>3 DEF PinnedReads
      <4>5. ASSUME NEW s \in reader.sessions, Tainted(s) PROVE FALSE
        <5>1. s \in Session
          BY <2>2 DEF Reader
        <5>2. Origin(reader.seen, s) = "PENDING_APPLICATION"
          BY <4>4, <4>5, <5>1, DirtyIsClaimed, SeenPendingOrigin
        <5>. QED
          BY <4>1, <5>2 DEF SeenPending
      <4>. QED
        BY <4>4, <4>5 DEF BoundReads, AttributionInv
    <3>. QED
      BY <3>1, <3>2
  <2>6. BoundReads'
    <3>1. \A s \in Session : Tainted(s)' <=> Tainted(s)
      BY <2>4 DEF Tainted
    <3>2. reader.sessions \subseteq Session
      BY <2>2 DEF Reader
    <3>. QED
      BY <2>1, <2>4, <2>5, <3>1, <3>2 DEF BoundReads
  <2>. QED
    BY <2>1, <2>2, <2>4, <2>6 DEF ReaderInv
<1>. QED
  BY <1>1, <1>2

-----------------------------------------------------------------------------
(* A consumer beside any number of writers *)

BindingInv == MarketInv /\ AttributionInv /\ ReaderInv

\* A consumer only reads.
LEMMA BindingOnlyReads ==
    BindingNext => \/ Binding /\ UNCHANGED vars
                   \/ Next /\ UNCHANGED reader
BY DEF BindingNext, Binding, Pin, Consume, AssertPinned, Depend, Read, EndReads, Bind

\* The invariant holds before the consumer starts,
LEMMA BindingInvInit ==
    ASSUME BindingInit
    PROVE  BindingInv
<1>1. MarketInv /\ AttributionInv
  BY InvInit, AttributionInit DEF BindingInit
<1>2. version \in Nat
  BY <1>1 DEF MarketInv, TypeInv, TypeOK, LogTypeOK
<1>. QED
  BY <1>1, <1>2, IdleTypes DEF BindingInit, BindingInv, ReaderInv

\* and every step keeps it.
LEMMA BindingInvNext ==
    ASSUME BindingInv, Faultless, [BindingNext]_bindingVars
    PROVE  BindingInv'
<1>1. [Next]_vars
  BY BindingOnlyReads DEF bindingVars
<1>2. MarketInv /\ TypeInv /\ AttributionInv /\ ReaderInv
  BY DEF BindingInv, MarketInv
<1>3. MarketInv' /\ TypeInv' /\ AttributionInv'
  BY <1>1, <1>2, InvNext, AttributionNext DEF MarketInv
<1>4. ReaderInv'
  <2>1. CASE reader' = reader
    BY <1>1, <1>2, <1>3, <2>1, ReaderKept
  <2>2. CASE Binding
    BY <1>2, <1>3, <2>2, PinConsume, AssertDepend, ReaderReads, EndBind
       DEF Binding
  <2>. QED
    BY <2>1, <2>2, BindingOnlyReads DEF bindingVars
<1>. QED
  BY <1>3, <1>4 DEF BindingInv

\* Nothing the consumer does changes what the writers do.
LEMMA ConsumerOnlyReads == BindingSpec => Spec
<1>1. BindingInit => Init
  BY DEF BindingInit
<1>2. [BindingNext]_bindingVars => [Next]_vars
  BY BindingOnlyReads DEF bindingVars
<1>. QED
  BY <1>1, <1>2, PTL DEF BindingSpec, Spec

\* The invariant of the consumer, for any number of writers.
THEOREM BindingInvHolds ==
    ASSUME Faultless PROVE BindingSpec => []BindingInv
<1>1. BindingInit => BindingInv
  BY BindingInvInit
<1>2. BindingInv /\ [BindingNext]_bindingVars => BindingInv'
  BY BindingInvNext
<1>. QED
  BY <1>1, <1>2, PTL DEF BindingSpec

\* Whatever raced with the consumer, a binding describes the rows it used.
THEOREM BindingIsTrue ==
    ASSUME Faultless PROVE BindingSpec => []BindingDescribesConsumedRows
<1>1. BindingInv => BindingDescribesConsumedRows
  BY DEF BindingInv, ReaderInv, BoundReads, BindingDescribesConsumedRows, Tainted
<1>. QED
  BY <1>1, BindingInvHolds, PTL

\* While the provenance of a bound session reads as it was bound, the market
\* stores the row that was used.
LEMMA DriftShows ==
    ASSUME BindingInv
    PROVE  NoSilentDrift
<1>. SUFFICES ASSUME reader.phase = "bound", NEW s \in reader.sessions, Attributed(s),
                     Origin(SeenNow, s) = Origin(reader.seen, s),
                     Attribution(SeenNow, s) = Attribution(reader.seen, s)
              PROVE  market[s] = reader.rows[s]
  BY DEF NoSilentDrift
<1>1. s \in Session /\ BoundReads
  BY DEF BindingInv, ReaderInv, Reader
<1>2. /\ SeenNow.rebasing = RebaseClaimed /\ SeenNow.claimed = AnyClaimed
      /\ SeenNow.rebased = rebaseOwner /\ SeenNow.applied = owner
  BY DEF SeenNow
<1>3. Origin(SeenNow, s) \in Attributable /\ Origin(reader.seen, s) \in Attributable
  BY DEF Attributed
<1>4. ~Dirty(s)
  BY <1>1, <1>2, <1>3, DirtyIsClaimed, SeenPendingOrigin DEF BindingInv, Attributable
<1>5. rebaseOwner[s] = reader.seen.rebased[s]
  BY <1>2, <1>3, AttributedIsPresent DEF Attribution
<1>6. reader.rows[s] = reader.basis[s] /\ reader.basis[s] # NoRow
  BY <1>1, <1>3, AttributedIsPresent DEF BoundReads, Tainted
<1>7. content[s] = reader.basis[s]
  BY <1>1, <1>5, <1>6 DEF BoundReads
<1>. QED
  BY <1>4, <1>6, <1>7 DEF Dirty

\* Drift of bound evidence is never silent.
THEOREM DriftIsNeverSilent ==
    ASSUME Faultless PROVE BindingSpec => []NoSilentDrift
<1>1. BindingInv => NoSilentDrift
  BY DriftShows
<1>. QED
  BY <1>1, BindingInvHolds, PTL

-----------------------------------------------------------------------------
(* What an unchanged signature proves *)

\* Every transaction of the log numbers its events below the next number.
LEMMA EventsKept ==
    ASSUME TypeInv, EventsTicketed, NEW i
    PROVE  /\ UNCHANGED <<lastEvent, ticket>> => EventsTicketed'
           /\ PersistObservation(i) => EventsTicketed'
           /\ RecordDecision(i) => EventsTicketed'
           /\ \A S : RecordIntent(i, S) => EventsTicketed'
           /\ \A r, S, w : RecordBlock(i, r, S, w) => EventsTicketed'
           /\ AbandonIntent(i) => EventsTicketed'
           /\ SupersedeOthers(i) => EventsTicketed'
           /\ \A f : RecordApplication(i, f) => EventsTicketed'
           /\ \A c : RecordRebaseIntent(i, c) => EventsTicketed'
           /\ \A c, t : RecordRebase(i, c, t) => EventsTicketed'
<1>1. lastEvent \in [Id -> Event] /\ ticket \in Nat \ {0}
      /\ \A j \in Id : lastEvent[j].ticket \in Nat
  BY DEF TypeInv, TypeOK, LogTypeOK, Event
<1>2. UNCHANGED <<lastEvent, ticket>> => EventsTicketed'
  BY DEF EventsTicketed
<1>3. ASSUME NEW k, NEW t \in {0, ticket}, NEW c, SetEvent(i, k, t, c),
             ticket' = IF t = 0 THEN ticket ELSE ticket + 1
      PROVE  EventsTicketed'
  <2>1. \A j \in Id : lastEvent'[j] = lastEvent[j] \/ lastEvent'[j].ticket = t
    BY <1>1, <1>3 DEF SetEvent
  <2>. QED
    BY <1>1, <1>3, <2>1 DEF EventsTicketed
<1>4. PersistObservation(i) => EventsTicketed'
  BY <1>2, <1>3 DEF PersistObservation
<1>5. RecordDecision(i) => EventsTicketed'
  BY <1>1, <1>3 DEF RecordDecision
<1>6. \A S : RecordIntent(i, S) => EventsTicketed'
  BY <1>1, <1>3 DEF RecordIntent
<1>7. \A r, S, w : RecordBlock(i, r, S, w) => EventsTicketed'
  BY <1>1, <1>2, <1>3 DEF RecordBlock
<1>8. AbandonIntent(i) => EventsTicketed'
  BY <1>1, <1>3 DEF AbandonIntent
<1>9. ASSUME SupersedeOthers(i) PROVE EventsTicketed'
  <2>1. \A j \in Id : lastEvent'[j] = lastEvent[j] \/ lastEvent'[j].ticket = 0
    BY <1>9 DEF SupersedeOthers, NoEvent
  <2>2. ticket' = ticket
    BY <1>9 DEF SupersedeOthers
  <2>. QED
    BY <1>1, <2>1, <2>2 DEF EventsTicketed
<1>10. \A f : RecordApplication(i, f) => EventsTicketed'
  BY <1>1, <1>2, <1>3 DEF RecordApplication, logVars
<1>11. \A c : RecordRebaseIntent(i, c) => EventsTicketed'
  BY <1>1, <1>3 DEF RecordRebaseIntent
<1>12. \A c, t : RecordRebase(i, c, t) => EventsTicketed'
  BY <1>1, <1>2, <1>3 DEF RecordRebase, logVars
<1>. QED
  BY <1>2, <1>4, <1>5, <1>6, <1>7, <1>8, <1>9, <1>10, <1>11, <1>12

\* So does every step.
LEMMA EventsNext ==
    ASSUME TypeInv, EventsTicketed, [Next]_vars
    PROVE  EventsTicketed'
<1>1. UNCHANGED logVars => UNCHANGED <<lastEvent, ticket>>
  BY DEF logVars
<1>2. ASSUME NEW p \in Proc, Admission(p) PROVE EventsTicketed'
  BY <1>1, <1>2, EventsKept
     DEF Admission, ReuseReceipt, InvalidReceipt, NoReceipt, BindReadmission,
         PersistReadmission, Lock, AcquireLock, Settle, SettleAppend, SettleRebase,
         BlockAmbiguous, Recovered, Supersede, BlockMismatch, BlockRevision, Decide,
         FinalizeNoOp, ClaimSessions, AppendRows, FinalizeAppend, AppendFails,
         AbandonAfterRollback
<1>3. ASSUME NEW p \in Proc, Reviewed(p) PROVE EventsTicketed'
  BY <1>1, <1>3, EventsKept
     DEF Reviewed, PlanRebase, LockRebase, AcquireLock, RefuseRebase, RebaseSettle,
         RecoverySettle, SettleRebase, ClaimBlock, ClaimRefused, RewriteRows,
         RewriteFails, FinalizeRebase, LockRecovery, FinishRecovery
<1>4. ASSUME NEW p \in Proc, Call(p) \/ Crash(p) PROVE EventsTicketed'
  BY <1>1, <1>4, EventsKept DEF Call, Crash, Observe, RequestRebase, RequestRecovery
<1>5. ASSUME NEW k \in block, Review(k) PROVE EventsTicketed'
  BY <1>5, EventsKept DEF Review, ResolveBlock
<1>6. ASSUME NEW h, EditOutOfBand(h) PROVE EventsTicketed'
  BY <1>1, <1>6, EventsKept DEF EditOutOfBand
<1>7. CASE UNCHANGED vars
  BY <1>1, <1>7, EventsKept DEF vars
<1>. QED
  BY <1>2, <1>3, <1>4, <1>5, <1>6, <1>7 DEF Next, Progress

\* A block is never recorded without an event.
LEMMA BlocksHaveEvents ==
    ASSUME TypeInv, EventsTicketed, [Next]_vars, UNCHANGED lastEvent
    PROVE  UNCHANGED block
<1>1. UNCHANGED logVars => UNCHANGED block
  BY DEF logVars
<1>2. lastEvent \in [Id -> Event] /\ ticket \in Nat
      /\ \A j \in Id : lastEvent[j].ticket \in Nat
  BY DEF TypeInv, TypeOK, LogTypeOK, Event
<1>3. ASSUME NEW i \in Id, NEW r, NEW S, NEW w, RecordBlock(i, r, S, w)
      PROVE  UNCHANGED block
  <2>1. CASE \E k \in Unresolved : k.id = i /\ k.result = r
    BY <1>3, <2>1 DEF RecordBlock
  <2>2. CASE ~\E k \in Unresolved : k.id = i /\ k.result = r
    <3>1. lastEvent'[i].ticket = ticket
      BY <1>2, <1>3, <2>2 DEF RecordBlock, SetEvent
    <3>2. lastEvent[i].ticket < ticket
      BY DEF EventsTicketed
    <3>. QED
      BY <1>2, <3>1, <3>2
  <2>. QED
    BY <2>1, <2>2
<1>4. \A i : /\ PersistObservation(i) => UNCHANGED block
             /\ RecordDecision(i) => UNCHANGED block
             /\ \A S : RecordIntent(i, S) => UNCHANGED block
             /\ AbandonIntent(i) => UNCHANGED block
             /\ SupersedeOthers(i) => UNCHANGED block
             /\ \A f : RecordApplication(i, f) => UNCHANGED block
             /\ \A c : RecordRebaseIntent(i, c) => UNCHANGED block
             /\ \A c, t : RecordRebase(i, c, t) => UNCHANGED block
  BY DEF PersistObservation, RecordDecision, RecordIntent, AbandonIntent,
         SupersedeOthers, RecordApplication, RecordRebaseIntent, RecordRebase, logVars
<1>5. ASSUME NEW p \in Proc, Admission(p) PROVE UNCHANGED block
  <2>1. job[p].phase \in {"locked", "comparing"} => job[p].id \in Id
    BY IdentifiedJob DEF JobsOK, TypeInv, TypeOK, StoreTypeOK, NoIdPhase
  <2>2. CASE \/ \E k \in OpenIntents : BlockAmbiguous(p, k)
             \/ BlockMismatch(p) \/ BlockRevision(p)
    BY <1>3, <2>1, <2>2 DEF BlockAmbiguous, BlockMismatch, BlockRevision, At
  <2>3. CASE ~\/ \E k \in OpenIntents : BlockAmbiguous(p, k)
              \/ BlockMismatch(p) \/ BlockRevision(p)
    BY <1>1, <1>4, <1>5, <2>3
       DEF Admission, ReuseReceipt, InvalidReceipt, NoReceipt, BindReadmission,
           PersistReadmission, Lock, AcquireLock, Settle, SettleAppend, SettleRebase,
           Recovered, Supersede, Decide, FinalizeNoOp, ClaimSessions, AppendRows,
           FinalizeAppend, AppendFails, AbandonAfterRollback
  <2>. QED
    BY <2>2, <2>3
<1>6. ASSUME NEW p \in Proc, Reviewed(p) PROVE UNCHANGED block
  BY <1>1, <1>4, <1>6
     DEF Reviewed, PlanRebase, LockRebase, AcquireLock, RefuseRebase, RebaseSettle,
         RecoverySettle, SettleRebase, ClaimBlock, ClaimRefused, RewriteRows,
         RewriteFails, FinalizeRebase, LockRecovery, FinishRecovery
<1>7. ASSUME NEW p \in Proc, Call(p) \/ Crash(p) PROVE UNCHANGED block
  BY <1>1, <1>4, <1>7 DEF Call, Crash, Observe, RequestRebase, RequestRecovery
<1>8. ASSUME NEW k \in block, Review(k) PROVE UNCHANGED block
  BY <1>8 DEF Review, ResolveBlock
<1>9. ASSUME NEW h, EditOutOfBand(h) PROVE UNCHANGED block
  BY <1>1, <1>9 DEF EditOutOfBand
<1>10. CASE UNCHANGED vars
  BY <1>1, <1>10 DEF vars
<1>. QED
  BY <1>5, <1>6, <1>7, <1>8, <1>9, <1>10 DEF Next, Progress

\* With the signature, everything a verdict rests on stands, except that rows of
\* a claimed append may appear.
LEMMA SignatureStands ==
    ASSUME MarketInv, TypeInv', Faultless, AttributionInv, EventsTicketed, [Next]_vars,
           ~SignatureMoves
    PROVE  /\ UNCHANGED <<owner, rebaseOwner, RebaseClaimed, AnyClaimed, Unresolved>>
           /\ \A s \in Session :
                \/ s \in Stored(market)' <=> s \in Stored(market)
                \/ s \in AnyClaimed /\ owner[s] = NoOwner /\ rebaseOwner[s] = NoOwner
<1>1. UNCHANGED <<lastEvent, resolution, owner, version>>
  BY DEF SignatureMoves
<1>2. TypeInv /\ CoreInv
  BY DEF MarketInv, CoreInv
<1>3. rebaseOwner' = rebaseOwner
  BY <1>1, VersionsGrow
<1>4. Unresolved' = Unresolved
  BY <1>1, <1>2, BlocksHaveEvents DEF Unresolved, Resolved
<1>5. RebaseClaimed' = RebaseClaimed /\ AnyClaimed' = AnyClaimed
  BY <1>1 DEF RebaseClaimed, AnyClaimed, OpenRebases, OpenIntents
<1>6. ASSUME NEW s \in Session, ~(s \in Stored(market)' <=> s \in Stored(market))
      PROVE  s \in AnyClaimed /\ owner[s] = NoOwner /\ rebaseOwner[s] = NoOwner
  <2>1. PICK i : WritingStep(i)
    BY <1>6, StepKinds DEF AttributingStep, Stored
  <2>2. i \in OpenIntents /\ market = content
        /\ market' = Write(content, i.batch, lastEvent[i].claim.sessions)
    BY <2>1 DEF WritingStep
  <2>3. market'[s] # market[s]
    BY <1>6 DEF Stored
  <2>4. s \in lastEvent[i].claim.sessions
    BY <2>2, <2>3 DEF Write
  <2>5. s \in AnyClaimed
    BY <2>2, <2>4 DEF AnyClaimed
  <2>6. market[s] = NoRow
    BY <1>2, <1>6, <2>1, <2>3, WritingChanges
  <2>. QED
    BY <2>2, <2>5, <2>6 DEF AttributionInv
<1>. QED
  BY <1>1, <1>3, <1>4, <1>5, <1>6

-----------------------------------------------------------------------------
(* The qualifier *)

\* A qualifier that has begun and read nothing.
LEMMA QualifierBegins ==
    ASSUME EventsTicketed', NEW coverage \in Coverage, NEW S \in SUBSET Session,
           qualifier' = [Closed EXCEPT !.phase = "signed", !.fresh = TRUE,
                                       !.coverage = coverage, !.sessions = S]
    PROVE  QualifierInv'
<1>1. PICK local : local = qualifier'
  OBVIOUS
<1>2. /\ local \in QualifierType /\ local.phase = "signed" /\ local.next = 1
      /\ local.coverage \in Coverage
  <2>1. local = [phase |-> "signed", coverage |-> coverage, sessions |-> S,
                 fresh |-> TRUE, blocks |-> {}, next |-> 1, seen |-> NothingSeen]
    BY <1>1 DEF Closed
  <2>. QED
    BY <2>1, IdleTypes DEF QualifierType
<1>3. ~RebasingDone(local)
      /\ \A k \in {"present", "rebased", "applied", "claimed"} : ~Done(local, k)
  BY <1>2, NothingDone
<1>4. FreshReads'
  BY <1>1, <1>2, <1>3 DEF FreshReads, Done, RebasingDone
<1>. QED
  BY <1>1, <1>2, <1>4 DEF QualifierInv

\* Reading the signature, then the blocks, and reading the signature again.
LEMMA QualifierSnapshots ==
    ASSUME TypeInv, EventsTicketed', QualifierInv, UNCHANGED bindingVars,
           \/ \E c \in Coverage, s \in Session : ReadSignature(c, s)
           \/ ReadBlocks \/ Revalidate
    PROVE  QualifierInv'
<1>1. qualifier \in QualifierType
  BY DEF QualifierInv
<1>2. ASSUME NEW c \in Coverage, NEW s \in Session, ReadSignature(c, s)
      PROVE  QualifierInv'
  <2>1. (IF c = "POINT" THEN {s} ELSE 1 .. s) \in SUBSET Session
    BY SessionsAssumption DEF Session
  <2>. QED
    BY <1>2, <2>1, QualifierBegins DEF ReadSignature
<1>3. CASE Revalidate
  BY <1>1, <1>3, QualifierBegins DEF Revalidate, QualifierType
<1>4. CASE ReadBlocks
  <2>1. PICK local : local = qualifier'
    OBVIOUS
  <2>2. qualifier.phase = "signed" /\ qualifier.next = 1
        /\ local = [qualifier EXCEPT !.phase = "evaluating",
                                     !.blocks = {k.ticket : k \in Unresolved}]
    BY <1>4, <2>1 DEF ReadBlocks, QualifierInv
  <2>3. {k.ticket : k \in Unresolved} \subseteq Nat
    BY DEF Unresolved, TypeInv, TypeOK, LogTypeOK, Block
  <2>4. /\ local \in QualifierType /\ local.phase = "evaluating" /\ local.next = 1
        /\ local.coverage \in Coverage /\ local.blocks = {k.ticket : k \in Unresolved}
    BY <1>1, <2>2, <2>3 DEF QualifierType
  <2>5. ~RebasingDone(local)
        /\ \A k \in {"present", "rebased", "applied", "claimed"} : ~Done(local, k)
    BY <2>4, NothingDone
  <2>6. Unresolved' = Unresolved
    BY DEF bindingVars, vars, logVars, Unresolved, Resolved
  <2>7. FreshReads'
    BY <2>1, <2>4, <2>5, <2>6 DEF FreshReads, Done, RebasingDone
  <2>8. 1 <= Len(Reads(local.coverage))
    BY <2>4 DEF Reads, Coverage
  <2>. QED
    BY <2>1, <2>4, <2>7, <2>8 DEF QualifierInv
<1>. QED
  BY <1>2, <1>3, <1>4

\* A read of the provenance.
LEMMA QualifierReads ==
    ASSUME TypeInv, EventsTicketed', QualifierInv, UNCHANGED bindingVars, ReadProvenance
    PROVE  QualifierInv'
<1>0. PICK kind, S : kind = Reads(qualifier.coverage)[qualifier.next]
                     /\ S = qualifier.sessions
  OBVIOUS
<1>1. UNCHANGED <<rebaseOwner, owner, market>> /\ RebaseClaimed' = RebaseClaimed
      /\ AnyClaimed' = AnyClaimed /\ Unresolved' = Unresolved
  BY DEF bindingVars, vars, logVars, storeVars, RebaseClaimed, AnyClaimed, OpenRebases,
         OpenIntents, Unresolved, Resolved
<1>2. /\ qualifier \in QualifierType /\ qualifier.phase = "evaluating"
      /\ qualifier.next <= Len(Reads(qualifier.coverage))
  BY DEF ReadProvenance, QualifierInv
<1>3. /\ qualifier.seen \in SeenProvenance /\ qualifier.coverage \in Coverage
      /\ qualifier.next \in Nat \ {0} /\ S \subseteq Session
  BY <1>0, <1>2 DEF QualifierType
<1>4. PICK seen, phase :
      /\ qualifier' = [qualifier EXCEPT !.phase = phase, !.next = qualifier.next + 1,
                                        !.seen = seen]
      /\ phase = IF qualifier.next = Len(Reads(qualifier.coverage))
                 THEN "qualified" ELSE "evaluating"
      /\ kind = "present" => seen = [qualifier.seen EXCEPT !.present = Stored(market) \cap S]
      /\ kind = "rebasing" => seen = [qualifier.seen EXCEPT !.rebasing = RebaseClaimed \cap S]
      /\ kind = "rebased" => seen = [qualifier.seen EXCEPT !.rebased = OfDependency(rebaseOwner)]
      /\ kind = "applied" => seen = [qualifier.seen EXCEPT !.applied = OfDependency(owner)]
      /\ kind = "claimed" =>
           seen = [qualifier.seen EXCEPT !.claimed = AnyClaimed \cap S,
                     !.rebasing = IF qualifier.coverage = "WINDOW"
                                  THEN RebaseClaimed \cap S ELSE @]
  <2>1. PICK seen :
         seen = CASE kind = "present" -> [qualifier.seen EXCEPT !.present = Stored(market) \cap S]
                  [] kind = "rebasing" ->
                       [qualifier.seen EXCEPT !.rebasing = RebaseClaimed \cap S]
                  [] kind = "rebased" ->
                       [qualifier.seen EXCEPT !.rebased = OfDependency(rebaseOwner)]
                  [] kind = "applied" ->
                       [qualifier.seen EXCEPT !.applied = OfDependency(owner)]
                  [] kind = "claimed" ->
                       [qualifier.seen EXCEPT !.claimed = AnyClaimed \cap S,
                                              !.rebasing = IF qualifier.coverage = "WINDOW"
                                                           THEN RebaseClaimed \cap S ELSE @]
    OBVIOUS
  <2>2. PICK phase : phase = IF qualifier.next = Len(Reads(qualifier.coverage))
                             THEN "qualified" ELSE qualifier.phase
    OBVIOUS
  <2>3. qualifier' = [qualifier EXCEPT !.phase = phase, !.next = qualifier.next + 1,
                                       !.seen = seen]
    BY <1>0, <2>1, <2>2 DEF ReadProvenance
  <2>. QED
    BY <1>2, <2>1, <2>2, <2>3
<1>5. PICK local : local = qualifier'
  OBVIOUS
<1>6. local.coverage = qualifier.coverage /\ local.next = qualifier.next + 1
      /\ local.seen = seen /\ local.phase = phase /\ local.fresh = qualifier.fresh
      /\ local.sessions = S /\ local.blocks = qualifier.blocks
  BY <1>0, <1>2, <1>4, <1>5 DEF QualifierType
<1>7. /\ kind \in {"present", "rebasing", "rebased", "applied", "claimed"}
      /\ kind = "present" <=> qualifier.next = 1
      /\ \A k \in {"present", "rebased", "applied", "claimed"} :
            Done(local, k) <=> Done(qualifier, k) \/ k = kind
      /\ RebasingDone(local) <=>
            \/ RebasingDone(qualifier) \/ kind = "rebasing"
            \/ qualifier.coverage = "WINDOW" /\ kind = "claimed"
  BY <1>0, <1>2, <1>3, <1>6, NextRead
<1>8. /\ OfDependency(owner) \in [Session -> Id \cup {NoOwner}]
      /\ OfDependency(rebaseOwner) \in [Session -> Id \cup {NoOwner}]
      /\ \A s \in S : /\ OfDependency(owner)[s] = owner[s]
                      /\ OfDependency(rebaseOwner)[s] = rebaseOwner[s]
  BY <1>0, <1>3, StoredTypes DEF OfDependency
<1>9. seen \in SeenProvenance
  <2>1. Stored(market) \cap S \in SUBSET Session /\ RebaseClaimed \cap S \in SUBSET Session
        /\ AnyClaimed \cap S \in SUBSET Session
    BY <1>3
  <2>. QED
    BY <1>3, <1>4, <1>7, <1>8, <2>1 DEF SeenProvenance
<1>10. local \in QualifierType
  <2>1. local = [qualifier EXCEPT !.phase = phase, !.next = qualifier.next + 1,
                                  !.seen = seen]
    BY <1>4, <1>5
  <2>2. qualifier.next + 1 \in Nat \ {0} /\ phase \in {"evaluating", "qualified"}
    BY <1>3, <1>4
  <2>. QED
    BY <1>2, <1>9, <2>1, <2>2 DEF QualifierType
<1>11. /\ phase = "evaluating" => local.next <= Len(Reads(local.coverage))
       /\ phase = "qualified" => local.next > Len(Reads(local.coverage))
       /\ phase \in {"evaluating", "qualified"}
  <2>1. Len(Reads(qualifier.coverage)) \in Nat
    BY <1>3, ReadsDone DEF Coverage
  <2>. QED
    BY <1>2, <1>3, <1>4, <1>6, <2>1
<1>12. ASSUME qualifier.fresh PROVE FreshReads'
  <2>1. FreshReads
    BY <1>12 DEF QualifierInv
  <2>2. /\ Done(qualifier, "rebased")' <=> Done(local, "rebased")
        /\ Done(qualifier, "applied")' <=> Done(local, "applied")
        /\ Done(qualifier, "claimed")' <=> Done(local, "claimed")
        /\ Done(qualifier, "present")' <=> Done(local, "present")
        /\ RebasingDone(qualifier)' <=> RebasingDone(local)
    BY <1>5 DEF Done, RebasingDone
  <2>3. /\ kind # "present" => seen.present = qualifier.seen.present
        /\ kind # "rebased" => seen.rebased = qualifier.seen.rebased
        /\ kind # "applied" => seen.applied = qualifier.seen.applied
        /\ kind # "claimed" => seen.claimed = qualifier.seen.claimed
        /\ kind = "present" => seen.present = Stored(market) \cap S
        /\ kind = "rebased" => seen.rebased = OfDependency(rebaseOwner)
        /\ kind = "applied" => seen.applied = OfDependency(owner)
        /\ kind = "claimed" => seen.claimed = AnyClaimed \cap S
        /\ seen.rebasing \in {RebaseClaimed \cap S, qualifier.seen.rebasing}
        /\ kind = "rebasing" \/ (qualifier.coverage = "WINDOW" /\ kind = "claimed") =>
              seen.rebasing = RebaseClaimed \cap S
    BY <1>3, <1>4, <1>7 DEF SeenProvenance
  <2>4. /\ qualifier.blocks = {k.ticket : k \in Unresolved}
        /\ Done(qualifier, "present") =>
             \A s \in S : \/ s \in qualifier.seen.present <=> s \in Stored(market)
                          \/ /\ s \in AnyClaimed
                             /\ owner[s] = NoOwner /\ rebaseOwner[s] = NoOwner
        /\ Done(qualifier, "rebased") =>
             \A s \in S : qualifier.seen.rebased[s] = rebaseOwner[s]
        /\ Done(qualifier, "applied") => \A s \in S : qualifier.seen.applied[s] = owner[s]
        /\ RebasingDone(qualifier) => qualifier.seen.rebasing = RebaseClaimed \cap S
        /\ Done(qualifier, "claimed") => qualifier.seen.claimed = AnyClaimed \cap S
    BY <1>0, <1>2, <2>1 DEF FreshReads
  <2>5. qualifier'.seen = seen /\ qualifier'.sessions = S /\ qualifier'.phase = phase
        /\ qualifier'.blocks = qualifier.blocks
    BY <1>5, <1>6
  <2>6. Done(qualifier, "present")' =>
             \A s \in S : \/ s \in seen.present <=> s \in Stored(market')
                          \/ /\ s \in AnyClaimed'
                             /\ owner'[s] = NoOwner /\ rebaseOwner'[s] = NoOwner
    BY <1>1, <1>7, <2>2, <2>3, <2>4
  <2>7. /\ Done(qualifier, "rebased")' => \A s \in S : seen.rebased[s] = rebaseOwner'[s]
        /\ Done(qualifier, "applied")' => \A s \in S : seen.applied[s] = owner'[s]
    BY <1>1, <1>7, <1>8, <2>2, <2>3, <2>4
  <2>8. /\ RebasingDone(qualifier)' => seen.rebasing = RebaseClaimed' \cap S
        /\ Done(qualifier, "claimed")' => seen.claimed = AnyClaimed' \cap S
    BY <1>1, <1>7, <2>2, <2>3, <2>4
  <2>. QED
    BY <1>1, <2>4, <2>5, <2>6, <2>7, <2>8 DEF FreshReads
<1>. QED
  BY <1>5, <1>6, <1>10, <1>11, <1>12 DEF QualifierInv

\* A step of a writer leaves what was read true or moves the signature.
LEMMA QualifierBeside ==
    ASSUME MarketInv, TypeInv', Faultless, AttributionInv, QualifierInv, EventsTicketed',
           [Next]_vars, qualifier' = [qualifier EXCEPT !.fresh = @ /\ ~SignatureMoves]
    PROVE  QualifierInv'
<1>. DEFINE same == ~SignatureMoves
<1>0. PICK local : local = qualifier'
  OBVIOUS
<1>1. qualifier \in QualifierType
  BY DEF QualifierInv
<1>a. PICK fresh \in BOOLEAN : fresh <=> same
  OBVIOUS
<1>2. /\ local \in QualifierType /\ local.phase = qualifier.phase
      /\ local.coverage = qualifier.coverage /\ local.sessions = qualifier.sessions
      /\ local.blocks = qualifier.blocks /\ local.next = qualifier.next
      /\ local.seen = qualifier.seen /\ (local.fresh => qualifier.fresh /\ fresh)
  <2>1. PICK kept \in BOOLEAN : kept <=> (qualifier.fresh /\ same)
    OBVIOUS
  <2>2. qualifier' = [qualifier EXCEPT !.fresh = kept]
    BY <2>1, <1>1 DEF QualifierType
  <2>3. kept => qualifier.fresh /\ fresh
    BY <1>a, <2>1
  <2>. QED
    BY <1>0, <1>1, <2>2, <2>3 DEF QualifierType
<1>3. ASSUME local.fresh PROVE FreshReads'
  <2>1. FreshReads /\ ~SignatureMoves
    BY <1>a, <1>2, <1>3 DEF QualifierInv
  <2>2. /\ UNCHANGED <<owner, rebaseOwner, RebaseClaimed, AnyClaimed, Unresolved>>
        /\ \A s \in Session :
             \/ s \in Stored(market)' <=> s \in Stored(market)
             \/ s \in AnyClaimed /\ owner[s] = NoOwner /\ rebaseOwner[s] = NoOwner
    BY <2>1, SignatureStands DEF QualifierInv
  <2>3. /\ \A k : Done(qualifier, k)' <=> Done(qualifier, k)
        /\ RebasingDone(qualifier)' <=> RebasingDone(qualifier)
    BY <1>0, <1>2 DEF Done, RebasingDone
  <2>4. /\ qualifier'.phase = qualifier.phase /\ qualifier'.sessions = qualifier.sessions
        /\ qualifier'.blocks = qualifier.blocks /\ qualifier'.seen = qualifier.seen
    BY <1>0, <1>2
  <2>5. qualifier.sessions \subseteq Session
    BY <1>1 DEF QualifierType
  <2>6. Done(qualifier, "present") => \A s \in qualifier.sessions :
             \/ s \in qualifier.seen.present <=> s \in Stored(market)'
             \/ s \in AnyClaimed /\ owner[s] = NoOwner /\ rebaseOwner[s] = NoOwner
    BY <2>1, <2>2, <2>5 DEF FreshReads
  <2>. QED
    BY <2>1, <2>2, <2>3, <2>4, <2>6 DEF FreshReads
<1>. QED
  BY <1>0, <1>2, <1>3 DEF QualifierInv

-----------------------------------------------------------------------------
(* A consumer and a qualifier beside any number of writers *)

EvidenceInv == BindingInv /\ QualifierInv

\* A qualifier only reads.
LEMMA EvidenceSteps ==
    EvidenceNext =>
        \/ BindingNext /\ UNCHANGED qualifier /\ qualifier = Closed
        \/ Qualify /\ UNCHANGED bindingVars
        \/ /\ Next /\ UNCHANGED reader
           /\ qualifier' = [qualifier EXCEPT !.fresh = @ /\ ~SignatureMoves]
BY DEF EvidenceNext

\* The invariant holds before anything is read,
LEMMA EvidenceInvInit ==
    ASSUME EvidenceInit
    PROVE  EvidenceInv
<1>1. BindingInv
  BY BindingInvInit DEF EvidenceInit
<1>2. qualifier \in QualifierType /\ qualifier.phase = "closed" /\ qualifier.next = 1
      /\ ~qualifier.fresh
  BY IdleTypes DEF EvidenceInit, Closed, QualifierType, Coverage
<1>3. EventsTicketed
  BY DEF EvidenceInit, BindingInit, Init, LogInit, EventsTicketed, NoEvent
<1>. QED
  BY <1>1, <1>2, <1>3 DEF EvidenceInv, QualifierInv

\* and every step keeps it.
LEMMA EvidenceInvNext ==
    ASSUME EvidenceInv, Faultless, [EvidenceNext]_evidenceVars
    PROVE  EvidenceInv'
<1>1. BindingInv /\ QualifierInv /\ MarketInv /\ TypeInv /\ AttributionInv
  BY DEF EvidenceInv, BindingInv, MarketInv
<1>2. [BindingNext]_bindingVars
  BY EvidenceSteps DEF evidenceVars, BindingNext
<1>3. [Next]_vars
  BY <1>2, BindingOnlyReads DEF bindingVars
<1>4. BindingInv' /\ TypeInv'
  BY <1>1, <1>2, BindingInvNext DEF BindingInv, MarketInv
<1>5. EventsTicketed'
  BY <1>1, <1>3, EventsNext DEF QualifierInv
<1>6. ASSUME qualifier' = qualifier, qualifier = Closed PROVE QualifierInv'
  <2>1. qualifier'.fresh = FALSE /\ qualifier'.phase = "closed"
    BY <1>6 DEF Closed
  <2>2. qualifier' \in QualifierType
    BY <1>1, <1>6 DEF QualifierInv
  <2>3. qualifier'.next = qualifier.next /\ qualifier'.coverage = qualifier.coverage
    BY <1>6
  <2>. QED
    BY <1>1, <1>5, <1>6, <2>1, <2>2, <2>3 DEF QualifierInv
<1>7. ASSUME Qualify, UNCHANGED bindingVars PROVE QualifierInv'
  BY <1>1, <1>5, <1>7, QualifierSnapshots, QualifierReads DEF Qualify
<1>8. ASSUME qualifier' = [qualifier EXCEPT !.fresh = @ /\ ~SignatureMoves]
      PROVE  QualifierInv'
  BY <1>1, <1>3, <1>4, <1>5, <1>8, QualifierBeside
<1>9. ASSUME UNCHANGED evidenceVars PROVE QualifierInv'
  <2>1. UNCHANGED vars /\ UNCHANGED qualifier
    BY <1>9 DEF evidenceVars, bindingVars
  <2>2. ~SignatureMoves
    BY <2>1 DEF vars, logVars, SignatureMoves
  <2>3. qualifier \in QualifierType
    BY <1>1 DEF QualifierInv
  <2>4. qualifier' = [qualifier EXCEPT !.fresh = @ /\ ~SignatureMoves]
    BY <2>1, <2>2, <2>3 DEF QualifierType
  <2>. QED
    BY <1>8, <2>4
<1>10. QualifierInv'
  BY <1>6, <1>7, <1>8, <1>9, EvidenceSteps
<1>. QED
  BY <1>4, <1>10 DEF EvidenceInv

\* The invariant of consumer and qualifier, for any number of writers.
THEOREM EvidenceInvHolds ==
    ASSUME Faultless PROVE EvidenceSpec => []EvidenceInv
<1>1. EvidenceInit => EvidenceInv
  BY EvidenceInvInit
<1>2. EvidenceInv /\ [EvidenceNext]_evidenceVars => EvidenceInv'
  BY EvidenceInvNext
<1>. QED
  BY <1>1, <1>2, PTL DEF EvidenceSpec

\* Two ways of seeing a session that differ in nothing give it one origin.
LEMMA SameOrigin ==
    ASSUME NEW seen, NEW now, NEW s,
           s \in seen.rebasing <=> s \in now.rebasing,
           s \in seen.claimed <=> s \in now.claimed,
           s \in seen.present <=> s \in now.present,
           seen.rebased[s] = now.rebased[s], seen.applied[s] = now.applied[s]
    PROVE  SameProvenance(seen, now, s)
<1>1. Origin(seen, s) = Origin(now, s)
  BY DEF Origin
<1>. QED
  BY <1>1 DEF SameProvenance, Attribution

\* What a kept verdict was computed from is what is stored.
LEMMA VerdictStands ==
    ASSUME EvidenceInv
    PROVE  ReusedVerdictIsCurrent
<1>. SUFFICES ASSUME qualifier.phase = "qualified", qualifier.fresh
              PROVE  /\ qualifier.blocks = {k.ticket : k \in Unresolved}
                     /\ \A s \in qualifier.sessions :
                            SameProvenance(qualifier.seen, SeenNow, s)
  BY DEF ReusedVerdictIsCurrent
<1>1. FreshReads /\ qualifier \in QualifierType
      /\ qualifier.next > Len(Reads(qualifier.coverage))
  BY DEF EvidenceInv, QualifierInv
<1>2. /\ RebasingDone(qualifier) /\ Done(qualifier, "rebased")
      /\ Done(qualifier, "applied") /\ Done(qualifier, "claimed")
      /\ Done(qualifier, "present")
  <2>1. qualifier.coverage \in Coverage /\ qualifier.next \in Nat \ {0}
    BY <1>1 DEF QualifierType
  <2>. QED
    BY <1>1, <2>1, AllDone
<1>3. /\ SeenNow.rebasing = RebaseClaimed /\ SeenNow.claimed = AnyClaimed
      /\ SeenNow.rebased = rebaseOwner /\ SeenNow.applied = owner
      /\ SeenNow.present = Stored(market)
  BY DEF SeenNow
<1>4. ASSUME NEW s \in qualifier.sessions PROVE SameProvenance(qualifier.seen, SeenNow, s)
  <2>1. /\ qualifier.seen.rebased[s] = rebaseOwner[s]
        /\ qualifier.seen.applied[s] = owner[s]
        /\ s \in qualifier.seen.rebasing <=> s \in RebaseClaimed
        /\ s \in qualifier.seen.claimed <=> s \in AnyClaimed
    BY <1>1, <1>2 DEF FreshReads
  <2>2. CASE s \in qualifier.seen.present <=> s \in Stored(market)
    BY <1>3, <2>1, <2>2, SameOrigin
  <2>3. CASE s \in AnyClaimed /\ owner[s] = NoOwner /\ rebaseOwner[s] = NoOwner
    BY <1>3, <2>1, <2>3, SeenPendingOrigin DEF SameProvenance
  <2>. QED
    BY <1>1, <1>2, <2>2, <2>3 DEF FreshReads
<1>. QED
  BY <1>1, <1>4 DEF FreshReads

\* A kept qualifier neither misses a block or a rebase nor holds evidence back
\* for one that is over.
THEOREM ReusedVerdictsAreCurrent ==
    ASSUME Faultless PROVE EvidenceSpec => []ReusedVerdictIsCurrent
<1>1. EvidenceInv => ReusedVerdictIsCurrent
  BY VerdictStands
<1>. QED
  BY <1>1, EvidenceInvHolds, PTL

\* A qualifier beside the consumer changes nothing of what the consumer does.
LEMMA QualifierOnlyReads == EvidenceSpec => BindingSpec
<1>1. EvidenceInit => BindingInit
  BY DEF EvidenceInit
<1>2. [EvidenceNext]_evidenceVars => [BindingNext]_bindingVars
  BY EvidenceSteps DEF evidenceVars, BindingNext
<1>. QED
  BY <1>1, <1>2, PTL DEF EvidenceSpec, BindingSpec
=============================================================================
