----------------------------- MODULE ShadowRules -----------------------------
(***************************************************************************)
(* The decisions of the transactional market-data path: the preupdate      *)
(* guard (quantlab/preupdate_market_data_guard.py) compares a prepared     *)
(* batch of one symbol with the stored history and its provenance, and     *)
(* the operational admission (quantlab/operational_admission.py) decides   *)
(* what the shadow writer may store when the guard has too little          *)
(* evidence.                                                               *)
(***************************************************************************)
EXTENDS Naturals

CONSTANTS LastDay,  \* sessions are 1..LastDay
          Content,  \* contents of a price row
          Absent,   \* no row of that day
          Jump,     \* pairs (close, next open) at least 35% apart
          Basis,    \* verified pairs of price unit and adjustment basis
          Unknown   \* a basis that is not verified

ASSUME LastDayAssumption == LastDay \in Nat

Day == 1..LastDay

Rows == [Day -> Content \cup {Absent}]

Has(rows) == {d \in Day : rows[d] # Absent}

\* A prepared batch: "basis" is Unknown unless source, unit and adjustment are
\* all verified; "claims" attribute every revision, "explained" the boundary.
BatchType ==
    [rows : Rows, target : Day,
     completed : {"MISSING", "UNRESOLVED", "REJECTED", "ADMITTED"},
     intent : {"INCREMENTAL_UPDATE", "BACKFILL", "BOOTSTRAP", "UNSPECIFIED"},
     basis : Basis \cup {Unknown},
     source : BOOLEAN, identity : BOOLEAN, coverage : BOOLEAN,
     claims : BOOLEAN, explained : BOOLEAN]

\* What PreparedPriceBatch accepts.
PreparedPriceBatch ==
    {b \in BatchType :
        /\ Has(b.rows) # {}
        /\ b.completed = "ADMITTED" => b.target \in Has(b.rows)
        /\ b.basis # Unknown => b.source}

Overlap(rows, b) == Has(rows) \cap Has(b.rows)

Revised(rows, b) == {d \in Overlap(rows, b) : rows[d] # b.rows[d]}

GenuinelyNew(rows, b) == {d \in Has(b.rows) : \A e \in Has(rows) : e < d}

HistoricalInsert(rows, b) == Has(b.rows) \ (Overlap(rows, b) \cup GenuinelyNew(rows, b))

\* The last stored day before the first new one: the latest stored day.
Prior(rows, b) ==
    {d \in Has(rows) : GenuinelyNew(rows, b) # {} /\ \A e \in Has(rows) : e <= d}

RelevantSessions(rows, b) == Overlap(rows, b) \cup Prior(rows, b)

\* Every relevant session is linked to a manifest verified with basis x.
PersistedBasis(rows, known, b, x) ==
    /\ RelevantSessions(rows, b) # {}
    /\ \A d \in RelevantSessions(rows, b) : known[d] = x

Boundary(rows, b) ==
    \E d \in Prior(rows, b), e \in GenuinelyNew(rows, b) :
        /\ \A f \in GenuinelyNew(rows, b) : e <= f
        /\ <<rows[d], b.rows[e]>> \in Jump

Blocking(rows, known, b) ==
    \/ b.basis # Unknown /\ \E x \in Basis \ {b.basis} : PersistedBasis(rows, known, b, x)
    \/ Revised(rows, b) # {} /\ ~b.claims

BasisUnverified(rows, known, b) ==
    b.basis = Unknown \/ \A x \in Basis : ~PersistedBasis(rows, known, b, x)

\* Insufficiencies other than PRICE_BASIS_UNVERIFIED.
TwoDays(S) == \E d, e \in S : d # e

OtherwiseInsufficient(rows, b) ==
    \/ ~b.coverage
    \/ ~TwoDays(Overlap(rows, b))
    \/ HistoricalInsert(rows, b) # {}
    \/ Boundary(rows, b) /\ ~b.explained

GuardDecision(rows, known, b) ==
    IF Blocking(rows, known, b) THEN "BLOCK"
    ELSE IF BasisUnverified(rows, known, b) \/ OtherwiseInsufficient(rows, b)
         THEN "INSUFFICIENT_EVIDENCE"
    ELSE "PASS"

\* What the guard may lack when only new rows are appended: the price basis.
AppendOnlyConditions(rows, known, b) ==
    /\ GuardDecision(rows, known, b) = "INSUFFICIENT_EVIDENCE"
    /\ BasisUnverified(rows, known, b) /\ ~OtherwiseInsufficient(rows, b)
    /\ b.intent = "INCREMENTAL_UPDATE" /\ b.identity /\ b.source
    /\ \A d \in Has(b.rows) : d <= b.target
    /\ Revised(rows, b) = {} /\ GenuinelyNew(rows, b) # {}
    /\ ~Boundary(rows, b)

\* Mutant: an attributed revision does not stop the append.
AttributedAdmission(rows, known, b) ==
    IF Has(rows) = {} THEN "BOOTSTRAP_PENDING"
    ELSE IF HistoricalInsert(rows, b) # {} THEN "HISTORICAL_GAP_REQUIRES_REVIEW"
    ELSE IF b.intent \in {"BACKFILL", "BOOTSTRAP"} THEN "BACKFILL_REQUIRES_STAGING"
    ELSE IF b.completed # "ADMITTED" THEN "OPERATIONAL_REJECTED"
    ELSE IF ~(GenuinelyNew(rows, b) \subseteq {b.target}) THEN "OPERATIONAL_REJECTED"
    ELSE IF GuardDecision(rows, known, b) = "PASS" THEN "NOT_REQUIRED_GUARD_PASS"
    ELSE IF AppendOnlyConditions(rows, known, b) THEN "OPERATIONAL_APPEND_ONLY_ACCEPTED"
    ELSE "OPERATIONAL_REJECTED"

\* The checks come in this order: the first that applies names the outcome.
OperationalAdmission(rows, known, b) ==
    IF Has(rows) = {} THEN "BOOTSTRAP_PENDING"
    ELSE IF HistoricalInsert(rows, b) # {} THEN "HISTORICAL_GAP_REQUIRES_REVIEW"
    ELSE IF b.intent \in {"BACKFILL", "BOOTSTRAP"} THEN "BACKFILL_REQUIRES_STAGING"
    ELSE IF b.completed # "ADMITTED" THEN "OPERATIONAL_REJECTED"
    ELSE IF ~(GenuinelyNew(rows, b) \subseteq {b.target}) THEN "OPERATIONAL_REJECTED"
    ELSE IF Revised(rows, b) # {} THEN "HISTORICAL_REVISION_REQUIRES_REVIEW"
    ELSE IF GuardDecision(rows, known, b) = "PASS" THEN "NOT_REQUIRED_GUARD_PASS"
    ELSE IF AppendOnlyConditions(rows, known, b) THEN "OPERATIONAL_APPEND_ONLY_ACCEPTED"
    ELSE "OPERATIONAL_REJECTED"

WriteApproved == {"NOT_REQUIRED_GUARD_PASS", "OPERATIONAL_APPEND_ONLY_ACCEPTED"}

RequiresStaging ==
    {"BACKFILL_REQUIRES_STAGING", "BOOTSTRAP_PENDING", "HISTORICAL_GAP_REQUIRES_REVIEW",
     "HISTORICAL_REVISION_REQUIRES_REVIEW"}
=============================================================================
