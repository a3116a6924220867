---------------------------- MODULE OverlapRules ----------------------------
(***************************************************************************)
(* The pure rules of the revision admission guard: how a provider batch is *)
(* compared with the stored price history of one symbol.                   *)
(*                                                                         *)
(* A stored history maps every exchange session to the canonical OHLCV     *)
(* tuple of its row in prices, or to NoRow.  The five numbers of a tuple   *)
(* are one abstract Value: the guard only compares tuples for equality.    *)
(***************************************************************************)
EXTENDS Naturals

CONSTANTS LastSession, \* number of exchange sessions of the model
          Value,       \* canonical OHLCV tuples
          NoRow        \* no row stored (or proposed) for a session

ASSUME SessionsAssumption == LastSession \in Nat \ {0}
ASSUME NoRowAssumption == NoRow \notin Value

Session == 1 .. LastSession
History == [Session -> Value \cup {NoRow}]

Stored(h) == {s \in Session : h[s] # NoRow}

\* s is later than every stored session (stored_latest is None or s > it).
After(h, s) == \A t \in Stored(h) : t < s

\* s is not later than the latest stored session.
Within(h, s) == \E t \in Stored(h) : s <= t

(***************************************************************************)
(* A normalized candidate batch: its rows and the requested date window.   *)
(* normalize_candidate rejects a row outside the window.                   *)
(***************************************************************************)
CandidateBatch ==
    {b \in [rows : History, lo : Session, hi : Session] :
        \A s \in Stored(b.rows) : b.lo <= s /\ s <= b.hi}

Window(h, b) == {s \in Stored(h) : b.lo <= s /\ s <= b.hi}
Changed(h, b) == {s \in Window(h, b) : b.rows[s] \notin {NoRow, h[s]}}
Missing(h, b) == {s \in Window(h, b) : b.rows[s] = NoRow}
Confirmed(h, b) == {s \in Window(h, b) : b.rows[s] = h[s]}
UnstoredInside(h, b) == {s \in Stored(b.rows) : Within(h, s) /\ h[s] = NoRow}
\* Mutant: the latest stored session is taken as the first new one.
NewSessionsOffByOne(h, b) ==
    {s \in Stored(b.rows) : \A t \in Stored(h) : t <= s}

NewSessions(h, b) == {s \in Stored(b.rows) : After(h, s)}

\* Mutant: an unstored session inside the history does not block.
ClassifyNoExtension(h, b) ==
    IF Changed(h, b) # {} THEN "BLOCKED_REVISION_CHANGED"
    ELSE IF Stored(h) # {} /\ (Window(h, b) = {} \/ Missing(h, b) # {})
         THEN "BLOCKED_OVERLAP_INCOMPLETE" ELSE "ADMITTED_APPEND"

\* Mutant: a changed value does not block.
ClassifyNoRevision(h, b) ==
    IF Stored(h) # {} /\ Window(h, b) = {} THEN "BLOCKED_OVERLAP_INCOMPLETE"
    ELSE IF NewSessions(h, b) # {} THEN "ADMITTED_APPEND"
    ELSE "ADMITTED_NO_NEW_SESSIONS"

Classify(h, b) ==
    CASE Stored(h) = {}                 -> "ADMITTED_INITIAL_LOAD"
      [] Stored(h) # {} /\ Window(h, b) = {}
                                        -> "BLOCKED_OVERLAP_INCOMPLETE"
      [] Changed(h, b) # {}             -> "BLOCKED_REVISION_CHANGED"
      [] Window(h, b) # {} /\ Changed(h, b) = {} /\ Missing(h, b) # {}
                                        -> "BLOCKED_OVERLAP_INCOMPLETE"
      [] Window(h, b) # {} /\ Changed(h, b) = {} /\ Missing(h, b) = {}
             /\ UnstoredInside(h, b) # {}
                                        -> "BLOCKED_HISTORY_EXTENSION"
      [] OTHER                          -> IF NewSessions(h, b) # {}
                                           THEN "ADMITTED_APPEND"
                                           ELSE "ADMITTED_NO_NEW_SESSIONS"

AdmittedResult == {"ADMITTED_INITIAL_LOAD", "ADMITTED_APPEND",
                   "ADMITTED_NO_NEW_SESSIONS"}
Admitted(h, b) == Classify(h, b) \in AdmittedResult

\* Sessions whose agreement must be re-established to lift the block.
Affected(h, b) ==
    LET named == Changed(h, b) \cup Missing(h, b) \cup UnstoredInside(h, b)
    IN  IF named # {} THEN named
        ELSE {s \in Stored(h) : \A t \in Stored(h) : t <= s}

\* May an APPLIED receipt of batch b be reused against the stored history h?
Matches(h, b) == \A s \in Stored(b.rows) : h[s] = b.rows[s]

\* The stored history once the rows of batch b for the sessions S are written.
Write(h, b, S) == [s \in Session |-> IF s \in S THEN b.rows[s] ELSE h[s]]

(***************************************************************************)
(* Reviewed rebase: is an older proposal completely compatible with the    *)
(* resulting basis, and are the changed sessions one contiguous prefix of  *)
(* the stored history?                                                     *)
(***************************************************************************)
CompatibleWithBasis(b, post) ==
    /\ Stored(post) # {}
    /\ \A s \in Stored(b.rows) : Within(post, s) => post[s] = b.rows[s]
    /\ Missing(post, b) = {}

IsPrefix(S, h) ==
    \A s \in S : \A t \in Stored(h) : t < s => t \in S

\* The rows of a stored history inside a batch's window, hashed with a block.
WindowRows(h, b) ==
    [s \in Session |-> IF s \in Window(h, b) THEN h[s] ELSE NoRow]
=============================================================================
