------------------------------ MODULE MCMarket ------------------------------
(***************************************************************************)
(* Small instances of MarketProperties for TLC: two or three sessions, two *)
(* OHLCV tuples v1, v2, and a handful of provider batches that meet every  *)
(* verdict of the overlap rules.                                           *)
(***************************************************************************)
EXTENDS MarketInvariant, TLC

CONSTANTS v1, v2 \* two OHLCV tuples

Rows(r) == [s \in Session |-> IF s \in DOMAIN r THEN r[s] ELSE NoRow]
Candidate(r, lo, hi) == [rows |-> Rows(r), lo |-> lo, hi |-> hi]

OneRow == {Rows(<<v1>>)}

\* Histories an out-of-band writer may leave, and the log may start from.
ShortHistories == {Rows(<<>>), Rows(<<v1>>), Rows(<<v1, v2>>)}
TamperedHistories == {Rows(<<v1>>), Rows(<<v1, v2, v1>>)}

\* An append that agrees, its second session alone, a back-adjusted history
\* with a new session, and the same adjustment of the first session alone.
Append2 == Candidate(<<v1, v1>>, 1, 2)
Second == Candidate(2 :> v1, 2, 2)
Adjusted2 == Candidate(<<v2, v2>>, 1, 2)
Adjusted1 == Candidate(<<v2>>, 1, 1)
Append3 == Candidate(<<v1, v1, v1>>, 1, 3)

TwoSessionBatches == {Append2, Second, Adjusted2}
RevisionBatches == {Append2, Adjusted1, Adjusted2}
ThreeSessionBatches == {Append2, Append3}

ProcSymmetry == Permutations(Proc)
=============================================================================
