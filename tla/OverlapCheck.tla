---------------------------- MODULE OverlapCheck ----------------------------
(***************************************************************************)
(* classify_overlap over every stored history and every candidate batch of *)
(* a small calendar: compare, apply the verdict, compare the same batch    *)
(* again, as the next Daily run does.                                      *)
(***************************************************************************)
EXTENDS OverlapRules

VARIABLES stored,  \* rows of the symbol
          batch,   \* the candidate
          verdict  \* result of the last comparison, or NONE

overlapVars == <<stored, batch, verdict>>

\* An empty candidate without any history is rejected before a comparison.
OverlapInit ==
    /\ stored \in History
    /\ batch \in CandidateBatch
    /\ Stored(batch.rows) # {} \/ Stored(stored) # {}
    /\ verdict = "NONE"

Compare ==
    /\ verdict = "NONE" \/ verdict \in AdmittedResult
    /\ verdict' = Classify(stored, batch)
    /\ stored' = IF Admitted(stored, batch)
                 THEN Write(stored, batch, NewSessions(stored, batch))
                 ELSE stored
    /\ UNCHANGED batch

OverlapSpec == OverlapInit /\ [][Compare]_overlapVars

\* An admitted batch is stored whole, value for value: its receipt may be
\* reused (_receipt_matches_market) although only new sessions were inserted.
AdmittedBatchIsStored == verdict \in AdmittedResult => Matches(stored, batch)

\* A retry of what was admitted confirms every row and appends nothing.
RetryConfirms ==
    [][(verdict \in AdmittedResult) =>
        /\ verdict' = "ADMITTED_NO_NEW_SESSIONS"
        /\ stored' = stored
        /\ Stored(batch.rows) \subseteq Confirmed(stored, batch)]_overlapVars

\* A comparison never rewrites a stored value, removes a row or fills a hole:
\* rows appear only behind the latest stored session.
OnlyAppends ==
    [][\A s \in Session : stored'[s] # stored[s] =>
            stored[s] = NoRow /\ After(stored, s)]_overlapVars
=============================================================================
