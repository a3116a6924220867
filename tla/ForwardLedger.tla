---------------------------- MODULE ForwardLedger ----------------------------
(***************************************************************************)
(* The prospective ledger (forward_validation.db): at most one formation   *)
(* per session, its maturities and outcomes, the audited gaps.  Every      *)
(* operator below is one transaction of ForwardValidationLedger.  The      *)
(* identity of a record hashes its recording time, so a record another run *)
(* wrote under the same key is a conflict and never a replay; the identity *)
(* of a gap has no time in it, and every run writes the same one.          *)
(***************************************************************************)
EXTENDS DailyMarket

CONSTANTS
  Start,     \* operational_start_after_session of the activation
  Horizon    \* tracked_horizons

ASSUME LedgerAssumption ==
  /\ Start \in 1 .. FirstToday - 1 /\ FirstToday <= Start + 2
  /\ Horizon \subseteq Nat \ {0}

VARIABLES
  formation,  \* what a session's formation read, and what it was bound to
  matured,    \* pairs <<formation session, horizon>> recorded MATURED
  outcome,    \* what a pair's outcome read at the target, and its binding
  gaps        \* sessions audited as MISSING_FORMATION

ledgerVars == <<formation, matured, outcome, gaps>>

Pair == Session \X Horizon
Target(pair) == pair[1] + pair[2]

\* Evidence holds the securities that had a close, the price scale the closes
\* were read at and the observation (rebase number) its binding names.
Evidence == [priced : SUBSET Security, closes : [Security -> Scale],
             bound : [Security -> Scale]]
Missing == [priced |-> {}]

Formed == {s \in Session : formation[s] # Missing}
Outcomes == {pair \in Pair : outcome[pair] # Missing}

\* The model starts after the first operational session, which a run has
\* formed or not.
LedgerInit ==
  /\ \E formed \in SUBSET ({FirstToday - 1} \ {Start}) :
       formation = [s \in Session |->
         IF s \in formed
           THEN [priced |-> Security, closes |-> [sec \in Security |-> 0],
                 bound |-> [sec \in Security |-> 0]]
           ELSE Missing]
  /\ matured = {}
  /\ outcome = [pair \in Pair |-> Missing]
  /\ gaps = {}

\* record_formation: formation, positions, binding and pending maturities in
\* one transaction.
RecordFormation(s, e) ==
  /\ s > Start /\ s \notin Formed
  /\ formation' = [formation EXCEPT ![s] = e]
  /\ UNCHANGED <<matured, outcome, gaps>>

FormationConflict(s) == s \in Formed

\* record_maturities of one pair that is due.
RecordMaturity(pair) ==
  /\ pair \notin matured
  /\ matured' = matured \cup {pair}
  /\ UNCHANGED <<formation, outcome, gaps>>

MaturityConflict(pair) == pair \in matured

\* record_outcomes: the outcomes of every position of the pair, with bindings.
RecordOutcome(pair, e) ==
  /\ pair \in matured /\ pair \notin Outcomes
  /\ outcome' = [outcome EXCEPT ![pair] = e]
  /\ UNCHANGED <<formation, matured, gaps>>

OutcomeConflict(pair) == pair \notin matured \/ pair \in Outcomes

\* detect_missing_formations and record_audit_events.
Unformed(latest, formed) == (Start + 1 .. latest) \ formed
RecordGaps(missed) ==
  /\ gaps' = gaps \cup missed
  /\ UNCHANGED <<formation, matured, outcome>>

\* Maturities that evaluate_formation_maturities finds due.
Due(formed, latest) ==
  {pair \in Pair : pair[1] \in formed /\ Target(pair) <= latest}

-----------------------------------------------------------------------------
(* Evaluation: what the evidence presentation averages. *)

\* A binding still describes what the log holds for the security.
Current(bound, sec) == bound[sec] = logged[sec].rebase

\* Mutant: only the outcome's own binding is qualified.
IncludedByOutcome(pair, stock) ==
  /\ pair \in Outcomes
  /\ \A sec \in {stock, Benchmark} :
       /\ sec \in formation[pair[1]].priced \cap outcome[pair].priced
       /\ Current(outcome[pair].bound, sec)
       /\ ~BlockHits(sec, pair[1], Target(pair))

\* The outcome of a pair for one selected stock, when all four closes were
\* there, is qualified by the formation's binding, restricted to the stock and
\* the benchmark, and its own binding; a drifted or blocked one is excluded.
Included(pair, stock) ==
  /\ pair \in Outcomes
  /\ \A sec \in {stock, Benchmark} :
       /\ sec \in formation[pair[1]].priced \cap outcome[pair].priced
       /\ Current(formation[pair[1]].bound, sec)
       /\ Current(outcome[pair].bound, sec)
       /\ ~BlockHits(sec, pair[1], Target(pair))
=============================================================================
