-------------------------- MODULE EvidenceQualifier --------------------------
(***************************************************************************)
(* EvidenceQualifier: an object kept and reused by reports.  Each call     *)
(* compares the log's state signature with the one of its snapshot; when   *)
(* it moved the snapshot is reloaded, signature before blocks, and the     *)
(* provenance of a dependency is read (in the several reads of             *)
(* session_provenance or window_provenance) unless it is cached.           *)
(*                                                                         *)
(* The signature counts events, resolutions, applied sessions and          *)
(* versions and only grows, so equality with an earlier value means that   *)
(* none of these tables was written in between: "fresh".                   *)
(***************************************************************************)
EXTENDS EvidenceBinding

VARIABLE qualifier  \* the object, for one dependency of a binding

\* fresh: the signature read is still the stored one; blocks: tickets of
\* self.blocks; seen: the cached provenance, next: the read that comes next.
Closed == [phase |-> "closed", coverage |-> "POINT", sessions |-> {}, fresh |-> FALSE,
           blocks |-> {}, next |-> 1, seen |-> NothingSeen]

evidenceVars == <<bindingVars, qualifier>>

\* Mutant: block_resolutions is not part of the signature.
SignatureIgnoresResolutions ==
    <<lastEvent, owner, version>>' # <<lastEvent, owner, version>>

\* A table the signature counts is written.
SignatureMoves ==
    <<lastEvent, resolution, owner, version>>' # <<lastEvent, resolution, owner, version>>

\* A call on the dependency of a binding ending in session s: refresh reads the
\* signature (nothing is shared before that) ...
ReadSignature(coverage, s) ==
    /\ qualifier.phase = "closed"
    /\ qualifier' = [Closed EXCEPT
            !.phase = "signed", !.fresh = TRUE, !.coverage = coverage,
            !.sessions = IF coverage = "POINT" THEN {s} ELSE 1 .. s]

\* ... before the blocks are.
ReadBlocks ==
    /\ qualifier.phase = "signed"
    /\ qualifier' = [qualifier EXCEPT !.phase = "evaluating",
                                      !.blocks = {k.ticket : k \in Unresolved}]

\* Sessions of the dependency only.
OfDependency(owned) ==
    [s \in Session |-> IF s \in qualifier.sessions THEN owned[s] ELSE NoOwner]

\* After the last read the verdict follows from what was seen.
ReadProvenance ==
    LET reads == Reads(qualifier.coverage)
        S == qualifier.sessions
    IN  /\ qualifier.phase = "evaluating"
        /\ qualifier' =
             [qualifier EXCEPT
                !.phase = IF qualifier.next = Len(reads) THEN "qualified" ELSE @,
                !.next = @ + 1,
                !.seen =
                  CASE reads[qualifier.next] = "present" ->
                         [@ EXCEPT !.present = Stored(market) \cap S]
                    [] reads[qualifier.next] = "rebasing" ->
                         [@ EXCEPT !.rebasing = RebaseClaimed \cap S]
                    [] reads[qualifier.next] = "rebased" ->
                         [@ EXCEPT !.rebased = OfDependency(rebaseOwner)]
                    [] reads[qualifier.next] = "applied" ->
                         [@ EXCEPT !.applied = OfDependency(owner)]
                    [] reads[qualifier.next] = "claimed" ->
                         [@ EXCEPT !.claimed = AnyClaimed \cap S,
                                   !.rebasing = IF qualifier.coverage = "WINDOW"
                                                THEN RebaseClaimed \cap S ELSE @]]

\* The next call: an unchanged signature keeps the snapshot, otherwise what was
\* cached is dropped.
Revalidate ==
    /\ qualifier.phase = "qualified"
    /\ ~qualifier.fresh
    /\ qualifier' = [Closed EXCEPT !.phase = "signed", !.fresh = TRUE,
                                   !.coverage = qualifier.coverage,
                                   !.sessions = qualifier.sessions]

Qualify ==
    \/ \E c \in Coverage, s \in Session : ReadSignature(c, s)
    \/ ReadBlocks \/ ReadProvenance \/ Revalidate

EvidenceInit == BindingInit /\ qualifier = Closed

\* A consumer and a qualifier only read, so each is explored on its own beside
\* the processes that write.
EvidenceNext ==
    \/ qualifier = Closed /\ BindingNext /\ UNCHANGED qualifier
    \/ reader = IdleReader /\ Qualify /\ UNCHANGED bindingVars
    \/ /\ qualifier # Closed /\ Next /\ UNCHANGED reader
       /\ qualifier' = [qualifier EXCEPT !.fresh = @ /\ ~SignatureMoves]

EvidenceSpec == EvidenceInit /\ [][EvidenceNext]_evidenceVars

\* Provenance that _evaluate_binding compares: origin, observation, version.
SameProvenance(seen, now, s) ==
    /\ Origin(seen, s) = Origin(now, s)
    /\ Origin(seen, s) \in {"OBSERVATION", "REBASED_HISTORY"} =>
            Attribution(seen, s) = Attribution(now, s)

\* An unchanged signature proves that the cached evaluation is current, also
\* when the log moved while the snapshot was taken or a writer is between its
\* intent, its COMMIT and its finalization (the claim of state_signature's
\* docstring): a kept qualifier neither misses a block or a rebase nor holds
\* evidence back for one that is over.
ReusedVerdictIsCurrent ==
    qualifier.phase = "qualified" /\ qualifier.fresh =>
        /\ qualifier.blocks = {k.ticket : k \in Unresolved}
        /\ \A s \in qualifier.sessions : SameProvenance(qualifier.seen, SeenNow, s)
=============================================================================
