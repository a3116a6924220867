-------------------------- MODULE EvidenceBinding ---------------------------
(***************************************************************************)
(* MarketBindingSession: a consumer pins the dataset version, reads price  *)
(* rows, and binds the evidence it derived from them to the pinned version *)
(* while admissions, rebases, crashes and recovery go on.  Every read is a *)
(* connection of its own, so anything may happen between two of them.      *)
(***************************************************************************)
EXTENDS MarketProperties, Sequences

VARIABLE reader  \* locals of the consumer and, once bound, its binding

Coverage == {"POINT", "WINDOW"}

\* The reads behind session_provenance and window_provenance, in their order.
Reads(coverage) ==
    IF coverage = "POINT"
    THEN <<"present", "rebasing", "rebased", "applied", "claimed">>
    ELSE <<"present", "applied", "rebased", "claimed">>

\* What one dependency has seen so far, over its sessions.
NothingSeen == [present |-> {}, rebasing |-> {},
                rebased |-> [s \in Session |-> NoOwner],
                applied |-> [s \in Session |-> NoOwner], claimed |-> {}]

\* The pinned version, the rows consumed, the dependency with its next read, and
\* the history (basis) the version stood for when it was pinned.
IdleReader == [phase |-> "idle", version |-> 0, rows |-> EmptyHistory,
               coverage |-> "POINT", sessions |-> {}, next |-> 1,
               seen |-> NothingSeen, basis |-> EmptyHistory]

bindingVars == <<vars, reader>>

BindingInit == Init /\ reader = IdleReader

-----------------------------------------------------------------------------
(* Classification of one session from what was seen of it *)

RebaseClaimed == UNION {lastEvent[i].claim.sessions : i \in OpenRebases}
AnyClaimed == UNION {lastEvent[i].claim.sessions : i \in OpenIntents}

Origin(seen, s) ==
    CASE s \in seen.rebasing             -> "PENDING_APPLICATION"
      [] s \notin seen.rebasing /\ seen.rebased[s] # NoOwner
             -> IF s \in seen.present THEN "REBASED_HISTORY" ELSE "REMOVED"
      [] s \notin seen.rebasing /\ seen.rebased[s] = NoOwner /\ seen.applied[s] # NoOwner
             -> IF s \in seen.present THEN "OBSERVATION" ELSE "REMOVED"
      [] s \notin seen.rebasing /\ seen.rebased[s] = NoOwner /\ seen.applied[s] = NoOwner
             /\ s \in seen.claimed
             -> "PENDING_APPLICATION"
      [] OTHER -> IF s \notin seen.present THEN "ABSENT"
                  ELSE IF Within(baseline, s) THEN "BASELINE_LEGACY"
                  ELSE "UNATTRIBUTED"

\* The observation that owns session s, if any.
Attribution(seen, s) ==
    IF seen.rebased[s] # NoOwner THEN seen.rebased[s] ELSE seen.applied[s]

\* Origins a verdict better than QUARANTINED_MISSING_PROVENANCE may rest on.
Attributable == {"BASELINE_LEGACY", "REBASED_HISTORY", "OBSERVATION"}

\* The same reads, all made now (what the qualifier compares a binding with).
SeenNow == [present |-> Stored(market), rebasing |-> RebaseClaimed,
            rebased |-> rebaseOwner, applied |-> owner, claimed |-> AnyClaimed]

-----------------------------------------------------------------------------
(* The consumer *)

Step(phase) == reader' = [reader EXCEPT !.phase = phase]
Refuse == reader' = IdleReader   \* StaleDatasetVersionError: nothing is bound

\* The decision point: the dataset version is read before any price is.
\* basis is no program state.
Pin ==
    /\ reader.phase = "idle"
    /\ reader' = [IdleReader EXCEPT !.phase = "pinned", !.version = version,
                                    !.basis = content]
    /\ UNCHANGED vars

Consume ==
    /\ reader.phase = "pinned"
    /\ reader' = [reader EXCEPT !.phase = "consumed", !.rows = market]
    /\ UNCHANGED vars

AssertPinned(from, to) ==
    /\ reader.phase = from
    /\ IF version = reader.version THEN Step(to) ELSE Refuse
    /\ UNCHANGED vars

\* A POINT dependency is one session, a WINDOW every session up to it.
Depend(coverage, s) ==
    /\ reader.phase = "asserted"
    /\ reader' = [reader EXCEPT
                    !.phase = "reading", !.coverage = coverage,
                    !.sessions = IF coverage = "POINT" THEN {s} ELSE 1 .. s]
    /\ UNCHANGED vars

\* The next read of the dependency.
Read ==
    LET reads == Reads(reader.coverage)
    IN  /\ reader.phase = "reading"
        /\ reader.next <= Len(reads)
        /\ reader' =
             [reader EXCEPT
                !.next = reader.next + 1,
                !.seen =
                  CASE reads[reader.next] = "present" ->
                         [@ EXCEPT !.present = Stored(market)]
                    [] reads[reader.next] = "rebasing" ->
                         [@ EXCEPT !.rebasing = RebaseClaimed]
                    [] reads[reader.next] = "rebased" ->
                         [@ EXCEPT !.rebased = rebaseOwner]
                    [] reads[reader.next] = "applied" ->
                         [@ EXCEPT !.applied = owner]
                    [] reads[reader.next] = "claimed" ->
                         \* a window reads both kinds of claims at once
                         [@ EXCEPT !.claimed = AnyClaimed,
                                   !.rebasing = IF reader.coverage = "WINDOW"
                                                THEN RebaseClaimed ELSE @]]
        /\ UNCHANGED vars

SeenPending == \E s \in reader.sessions :
                Origin(reader.seen, s) = "PENDING_APPLICATION"

\* Mutant: the dataset version is not read again after the provenance.
EndReadsUnasserted ==
    /\ reader.phase = "reading"
    /\ reader.next > Len(Reads(reader.coverage))
    /\ IF SeenPending THEN Refuse ELSE Step("reasserted")
    /\ UNCHANGED vars

EndReads ==
    /\ reader.phase = "reading"
    /\ reader.next > Len(Reads(reader.coverage))
    /\ IF SeenPending \/ version # reader.version
       THEN Refuse ELSE Step("reasserted")
    /\ UNCHANGED vars

\* An application may have opened after the provenance was read.
Bind ==
    /\ reader.phase = "reasserted"
    /\ IF reader.sessions \cap AnyClaimed # {} THEN Refuse ELSE Step("bound")
    /\ UNCHANGED vars

Binding ==
    \/ Pin \/ Consume \/ AssertPinned("consumed", "asserted")
    \/ \E c \in Coverage, s \in Session : Depend(c, s)
    \/ Read \/ EndReads \/ Bind

BindingNext == Binding \/ (Next /\ UNCHANGED reader)
BindingSpec == BindingInit /\ [][BindingNext]_bindingVars

-----------------------------------------------------------------------------
(* Properties *)

Attributed(s) == Origin(reader.seen, s) \in Attributable

\* Whatever raced with the consumer, a binding never describes another dataset
\* than the one whose prices it used: every attributable session it names had, in
\* the pinned version, exactly the value the consumer read (the claim of bind's
\* docstring: "every dependency was read from the pinned state").
BindingDescribesConsumedRows ==
    reader.phase = "bound" =>
        \A s \in reader.sessions : Attributed(s) => reader.rows[s] = reader.basis[s]

\* Drift is never silent: as long as the provenance of a bound session reads as
\* it was bound (no SESSION_PROVENANCE_DRIFT, no WINDOW_LINEAGE_DRIFT), the
\* market still stores the value the evidence was derived from.
NoSilentDrift ==
    reader.phase = "bound" =>
        \A s \in reader.sessions :
            /\ Attributed(s)
            /\ Origin(SeenNow, s) = Origin(reader.seen, s)
            /\ Attribution(SeenNow, s) = Attribution(reader.seen, s)
            => market[s] = reader.rows[s]
=============================================================================
