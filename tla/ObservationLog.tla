--------------------------- MODULE ObservationLog ---------------------------
(***************************************************************************)
(* The append-only market observation log, for one symbol: observations,   *)
(* admission events, application intents, symbol versions, session         *)
(* ownership, blocks and their resolutions.                                *)
(*                                                                         *)
(* Every operator that primes a variable is one SQLite transaction of the  *)
(* log (BEGIN IMMEDIATE ... COMMIT), hence one atomic step.                *)
(*                                                                         *)
(* Only the LAST state event of an observation is ever read back, so the   *)
(* event table is the function lastEvent.  Events whose event_id the code  *)
(* compares (decisions, blocks, intents) carry a ticket from a counter.    *)
(***************************************************************************)
EXTENDS OverlapRules

CONSTANTS Batch,       \* provider batches that may be fetched
          MaxVersion   \* bound on versions an observation is re-admitted on

ASSUME BatchAssumption == Batch \subseteq CandidateBatch
ASSUME MaxVersionAssumption == MaxVersion \in Nat

VARIABLES
    lastEvent,  \* Id -> last state event of the observation
    receipt,    \* Ids with an APPLICATION_RESULT / applied event
    version,    \* seq of the symbol's latest version; 0 is the baseline
    content,    \* history whose content_sha256 the latest version carries
    baseline,   \* the registered INITIAL_LEGACY history
    owner,      \* applied_sessions: Session -> Id or NoOwner
    rebaseOwner,\* rebased_sessions, latest rebase: Session -> Id or NoOwner
    rebasedBlock, \* tickets of the blocks a finalized rebase names
    block,      \* recorded blocks
    resolution, \* block resolutions: [block, kind]
    ticket      \* next event number

logVars == <<lastEvent, receipt, version, content, baseline, owner,
             rebaseOwner, rebasedBlock, block, resolution, ticket>>

\* Basis 0 is the semantic identity of the batch; basis v + 1 is its
\* readmission_identity against version v.
Id == [batch : Batch, basis : 0 .. MaxVersion + 1]
NoOwner == [batch |-> NoRow, basis |-> 0]
Observation(b) == [batch |-> b, basis |-> 0]
ASSUME NoOwnerAssumption == NoOwner \notin Id

EventKind == {"NONE", "OBSERVED", "ADMITTED", "BLOCKED", "INTENT",
              "REBASE_INTENT", "ABANDONED", "APPLIED", "SUPERSEDED"}

EmptyHistory == [s \in Session |-> NoRow]

\* What an application intent says about the change it claims: the sessions,
\* and for a reviewed rebase the stored rows before and after, the version it
\* was planned on, the block it owns and the older blocks it supersedes.
Claim == [sessions : SUBSET Session, pre : History, post : History,
          on : Nat, block : Nat, older : SUBSET Nat]
NoClaim == [sessions |-> {}, pre |-> EmptyHistory, post |-> EmptyHistory,
            on |-> 0, block |-> 0, older |-> {}]

Event == [kind : EventKind, ticket : Nat, claim : Claim]
NoEvent == [kind |-> "NONE", ticket |-> 0, claim |-> NoClaim]

BlockResult == {"BLOCKED_REVISION_CHANGED", "BLOCKED_OVERLAP_INCOMPLETE",
                "BLOCKED_HISTORY_EXTENSION", "BLOCKED_DATASET_MISMATCH"}
Block == [ticket : Nat, id : Id, result : BlockResult,
          affected : SUBSET Session, window : History]
\* Only DATASET_MISMATCH blocks carry auto_resolvable = False.
AutoResolvable(k) == k.result # "BLOCKED_DATASET_MISMATCH"

ResolutionKind == {"ACCEPTED", "REVIEWED", "REBASED", "SUPERSEDED_BY_REBASE"}
Resolution == [block : Nat, kind : ResolutionKind]

LogTypeOK ==
    /\ lastEvent \in [Id -> Event]
    /\ receipt \subseteq Id
    /\ version \in Nat
    /\ content \in History
    /\ baseline \in History
    /\ owner \in [Session -> Id \cup {NoOwner}]
    /\ rebaseOwner \in [Session -> Id \cup {NoOwner}]
    /\ rebasedBlock \subseteq Nat
    /\ block \subseteq Block
    /\ resolution \subseteq Resolution
    /\ ticket \in Nat \ {0}

LogInit(h) ==
    /\ lastEvent = [i \in Id |-> NoEvent]
    /\ receipt = {}
    /\ version = 0
    /\ content = h
    /\ baseline = h
    /\ owner = [s \in Session |-> NoOwner]
    /\ rebaseOwner = [s \in Session |-> NoOwner]
    /\ rebasedBlock = {}
    /\ block = {}
    /\ resolution = {}
    /\ ticket = 1

-----------------------------------------------------------------------------
(* Queries *)

IntentKind == {"INTENT", "REBASE_INTENT"}
OpenIntents == {i \in Id : lastEvent[i].kind \in IntentKind}
OpenRebases == {i \in Id : lastEvent[i].kind = "REBASE_INTENT"}

Resolved == {r.block : r \in resolution}
Unresolved == {k \in block : k.ticket \notin Resolved}

\* Blocks claimed by an open reviewed-rebase intent.
PendingRebaseOwned == {lastEvent[i].claim.block : i \in OpenRebases}

\* Unapplied observations a newer admission replaces (include_failed = True).
Pending == {i \in Id : /\ lastEvent[i].kind \in
                            {"OBSERVED", "ADMITTED", "INTENT",
                             "REBASE_INTENT", "ABANDONED"}
                       /\ i \notin receipt}

(* Does the stored history h agree with the baseline and version lineage? *)
BaselineIntact(h) ==
    \/ rebasedBlock # {}
    \/ \A s \in Session : Within(baseline, s) => h[s] = baseline[s]
LineageIntact(h) ==
    IF version > 0 THEN h = content
    ELSE \A s \in Stored(h) : Within(baseline, s)
\* Mutant: only the baseline is verified, not the version lineage.
VerifiedBaselineOnly(h) == BaselineIntact(h)

Verified(h) == BaselineIntact(h) /\ LineageIntact(h)

-----------------------------------------------------------------------------
(* Transactions *)

SetEvent(i, kind, t, claim) ==
    lastEvent' = [lastEvent EXCEPT
                    ![i] = [kind |-> kind, ticket |-> t, claim |-> claim]]

UnchangedApplication ==
    UNCHANGED <<receipt, version, content, owner, rebaseOwner, rebasedBlock>>

\* A repeat never inserts a duplicate observation; it only adds a receipt row.
PersistObservation(i) ==
    /\ IF lastEvent[i].kind = "NONE"
       THEN SetEvent(i, "OBSERVED", 0, NoClaim)
       ELSE UNCHANGED lastEvent
    /\ UnchangedApplication
    /\ UNCHANGED <<baseline, block, resolution, ticket>>

\* ADMISSION_DECISION / admitted: takes a ticket, the decision_event_id.
RecordDecision(i) ==
    /\ SetEvent(i, "ADMITTED", ticket, NoClaim)
    /\ ticket' = ticket + 1
    /\ UnchangedApplication
    /\ UNCHANGED <<baseline, block, resolution>>

\* A repeat of a still-unresolved block of the observation records nothing.
RecordBlock(i, result, affected, window) ==
    /\ IF \E k \in Unresolved : k.id = i /\ k.result = result
       THEN UNCHANGED <<lastEvent, block, ticket>>
       ELSE /\ SetEvent(i, "BLOCKED", ticket, NoClaim)
            /\ block' = block \cup {[ticket |-> ticket, id |-> i,
                                     result |-> result, affected |-> affected,
                                     window |-> window]}
            /\ ticket' = ticket + 1
    /\ UnchangedApplication
    /\ UNCHANGED <<baseline, resolution>>

RecordIntent(i, S) ==
    /\ SetEvent(i, "INTENT", ticket, [NoClaim EXCEPT !.sessions = S])
    /\ ticket' = ticket + 1
    /\ UnchangedApplication
    /\ UNCHANGED <<baseline, block, resolution>>

\* Mutant: a state the replay of events does not know.
AbandonIntentUnknown(i) ==
    /\ SetEvent(i, "FAILED", 0, NoClaim)
    /\ UnchangedApplication
    /\ UNCHANGED <<baseline, block, resolution, ticket>>

AbandonIntent(i) ==
    /\ SetEvent(i, "ABANDONED", 0, NoClaim)
    /\ UnchangedApplication
    /\ UNCHANGED <<baseline, block, resolution, ticket>>

SupersedeOthers(i) ==
    /\ lastEvent' = [j \in Id |-> IF j \in Pending \ {i}
                                  THEN [NoEvent EXCEPT !.kind = "SUPERSEDED"]
                                  ELSE lastEvent[j]]
    /\ UnchangedApplication
    /\ UNCHANGED <<baseline, block, resolution, ticket>>

(***************************************************************************)
(* record_application.  A finalization names the sessions it appended, the *)
(* history after it and, unless recovery made it, the decision ticket, the *)
(* version bound at the decision and the sessions it confirmed.            *)
(***************************************************************************)
Finalization == [sessions : SUBSET Session, content : History,
                 decision : Nat, bound : Nat, confirmed : SUBSET Session]

\* Recovery passes neither decision_event_id nor bound_version_id.
Reconciled(S, h) == [sessions |-> S, content |-> h, decision |-> 0,
                     bound |-> 0, confirmed |-> {}]

MayFinalize(i, f) ==
    IF f.sessions = {}
    THEN lastEvent[i].kind = "ADMITTED" /\ lastEvent[i].ticket = f.decision
    ELSE /\ lastEvent[i].kind \in IntentKind
         /\ lastEvent[i].claim.sessions = f.sessions
         /\ f.decision # 0 => f.bound = version
         /\ \A s \in f.sessions : owner[s] = NoOwner

\* Mutant: one confirmed session is taken as the whole block.
CoveredPartly(f) ==
    {k \in Unresolved :
        /\ k.ticket < f.decision
        /\ k.ticket \notin PendingRebaseOwned
        /\ AutoResolvable(k)
        /\ k.affected \cap f.confirmed # {}}

\* Blocks this very decision revalidated.
Covered(f) ==
    {k \in Unresolved :
        /\ k.ticket < f.decision
        /\ k.ticket \notin PendingRebaseOwned
        /\ AutoResolvable(k)
        /\ k.affected # {} /\ k.affected \subseteq f.confirmed
        /\ \A n \in block : n.ticket > f.decision => n.affected \cap k.affected = {}}

\* A second call for an applied observation returns the first result, and a
\* finalization that is not allowed raises: neither writes anything.
Finalizes(i, f) == i \notin receipt /\ MayFinalize(i, f)

\* Mutant: a finalization without new sessions makes a version too.
RecordApplicationAlwaysVersioned(i, f) ==
    IF Finalizes(i, f)
    THEN /\ receipt' = receipt \cup {i}
         /\ SetEvent(i, "APPLIED", 0, NoClaim)
         /\ version' = version + 1
         /\ content' = f.content
         /\ owner' = [s \in Session |->
                        IF s \in f.sessions THEN i ELSE owner[s]]
         /\ UNCHANGED <<baseline, rebaseOwner, rebasedBlock, block, resolution, ticket>>
    ELSE UNCHANGED logVars

RecordApplication(i, f) ==
    IF Finalizes(i, f)
    THEN /\ receipt' = receipt \cup {i}
         /\ SetEvent(i, "APPLIED", 0, NoClaim)
         /\ version' = IF f.sessions = {} THEN version ELSE version + 1
         /\ content' = IF f.sessions = {} THEN content ELSE f.content
         /\ owner' = [s \in Session |->
                        IF s \in f.sessions THEN i ELSE owner[s]]
         /\ resolution' = resolution \cup
                {[block |-> k.ticket, kind |-> "ACCEPTED"] : k \in Covered(f)}
         /\ UNCHANGED <<baseline, rebaseOwner, rebasedBlock, block, ticket>>
    ELSE UNCHANGED logVars

\* Mutant: the claim trusts the plan and does not look at the block again.
MayClaimBlockUnchecked(c) == OpenIntents = {}

(***************************************************************************)
(* Reviewed rebase.                                                        *)
(***************************************************************************)
\* The atomic re-check of record_rebase_intent.
MayClaimBlock(c) ==
    /\ c.block \notin Resolved
    /\ OpenIntents = {}

RecordRebaseIntent(i, c) ==
    /\ MayClaimBlock(c)
    /\ SetEvent(i, "REBASE_INTENT", ticket, c)
    /\ ticket' = ticket + 1
    /\ UnchangedApplication
    /\ UNCHANGED <<baseline, block, resolution>>

\* intent t of observation i; the unique index admits one receipt per Id.
MayRebase(i, c, t) ==
    /\ lastEvent[i].kind = "REBASE_INTENT" /\ lastEvent[i].ticket = t
    /\ c.block \notin Resolved
    /\ c.on = version
    /\ i \notin receipt

\* Idempotent on the reviewed block; otherwise allowed or it raises.
Rebases(i, c, t) == c.block \notin rebasedBlock /\ MayRebase(i, c, t)

\* Mutant: the finalization forgets to resolve the reviewed block.
RecordRebaseUnresolved(i, c, t) ==
    IF Rebases(i, c, t)
    THEN /\ version' = version + 1
         /\ content' = c.post
         /\ rebasedBlock' = rebasedBlock \cup {c.block}
         /\ rebaseOwner' = [s \in Session |->
                             IF s \in c.sessions THEN i ELSE rebaseOwner[s]]
         /\ receipt' = receipt \cup {i}
         /\ SetEvent(i, "APPLIED", 0, NoClaim)
         /\ UNCHANGED <<baseline, owner, block, resolution, ticket>>
    ELSE UNCHANGED logVars

\* Mutant: the finalization forgets who owns the rewritten sessions.
RecordRebaseUnowned(i, c, t) ==
    IF Rebases(i, c, t)
    THEN /\ version' = version + 1
         /\ content' = c.post
         /\ rebasedBlock' = rebasedBlock \cup {c.block}
         /\ receipt' = receipt \cup {i}
         /\ SetEvent(i, "APPLIED", 0, NoClaim)
         /\ resolution' = resolution
                 \cup {[block |-> c.block, kind |-> "REBASED"]}
                 \cup {[block |-> o, kind |-> "SUPERSEDED_BY_REBASE"] :
                         o \in c.older \ Resolved}
         /\ UNCHANGED <<baseline, owner, rebaseOwner, block, ticket>>
    ELSE UNCHANGED logVars

RecordRebase(i, c, t) ==
    IF Rebases(i, c, t)
    THEN /\ version' = version + 1
         /\ content' = c.post
         /\ rebasedBlock' = rebasedBlock \cup {c.block}
         /\ rebaseOwner' = [s \in Session |->
                             IF s \in c.sessions THEN i ELSE rebaseOwner[s]]
         /\ receipt' = receipt \cup {i}
         /\ SetEvent(i, "APPLIED", 0, NoClaim)
         /\ resolution' = resolution
                 \cup {[block |-> c.block, kind |-> "REBASED"]}
                 \cup {[block |-> o, kind |-> "SUPERSEDED_BY_REBASE"] :
                         o \in c.older \ Resolved}
         /\ UNCHANGED <<baseline, owner, block, ticket>>
    ELSE UNCHANGED logVars

\* Mutant: a review does not look for an open rebase of the block.
ResolveBlockBlindly(k) ==
    /\ k \in Unresolved
    /\ resolution' = resolution \cup
            {[block |-> k.ticket, kind |-> "REVIEWED"]}
    /\ UnchangedApplication
    /\ UNCHANGED <<lastEvent, baseline, block, ticket>>

\* resolve_block: an explicit review; a block claimed by an open rebase waits.
ResolveBlock(k) ==
    /\ k \in Unresolved
    /\ k.ticket \notin PendingRebaseOwned
    /\ resolution' = resolution \cup
            {[block |-> k.ticket, kind |-> "REVIEWED"]}
    /\ UnchangedApplication
    /\ UNCHANGED <<lastEvent, baseline, block, ticket>>
=============================================================================
