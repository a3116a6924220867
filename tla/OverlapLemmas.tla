--------------------------- MODULE OverlapLemmas ----------------------------
(***************************************************************************)
(* What the overlap rules select and what a write of selected sessions     *)
(* does to a stored history, for every calendar, value set and batch.      *)
(***************************************************************************)
EXTENDS OverlapRules, TLAPS

\* Every selection is a set of sessions.
LEMMA SessionSets ==
    ASSUME NEW h, NEW b
    PROVE  /\ Stored(h) \subseteq Session
           /\ Changed(h, b) \subseteq Session
           /\ Missing(h, b) \subseteq Session
           /\ Confirmed(h, b) \subseteq Session
           /\ UnstoredInside(h, b) \subseteq Session
           /\ NewSessions(h, b) \subseteq Session
           /\ Affected(h, b) \subseteq Session
BY DEF Stored, Changed, Missing, Confirmed, UnstoredInside, NewSessions,
       Affected, Window

\* The hashed window rows form a history.
LEMMA WindowRowsType ==
    ASSUME NEW h \in History, NEW b
    PROVE  WindowRows(h, b) \in History
BY DEF WindowRows, Window, Stored, History

\* New sessions are proposed, free, and behind every stored one.
LEMMA NewAreBehind ==
    ASSUME NEW h \in History, NEW b, NEW s \in NewSessions(h, b)
    PROVE  s \in Session /\ b.rows[s] # NoRow /\ After(h, s) /\ h[s] = NoRow
<1>1. s \in Session /\ b.rows[s] # NoRow /\ After(h, s)
  BY DEF NewSessions, Stored
<1>2. h[s] = NoRow
  <2>1. SUFFICES ASSUME h[s] # NoRow PROVE FALSE
    OBVIOUS
  <2>2. s < s /\ s \in Nat
    BY <1>1, <2>1, SessionsAssumption DEF After, Session, Stored
  <2>. QED
    BY <2>2
<1>. QED
  BY <1>1, <1>2

\* An append fills only sessions without a row, with proposed rows.
LEMMA AppendFacts ==
    ASSUME NEW h \in History, NEW b,
           NEW S, S \subseteq NewSessions(h, b), S # {}
    PROVE  /\ \A s \in S : /\ s \in Session /\ h[s] = NoRow /\ After(h, s)
                           /\ b.rows[s] # NoRow
                           /\ Write(h, b, S)[s] = b.rows[s]
           /\ Write(h, b, S) # h
           /\ Stored(Write(h, b, S)) = Stored(h) \cup S
<1>1. \A s \in S : s \in Session /\ b.rows[s] # NoRow /\ After(h, s) /\ h[s] = NoRow
  BY NewAreBehind
<1>2. \A s \in Session : Write(h, b, S)[s] = IF s \in S THEN b.rows[s] ELSE h[s]
  BY DEF Write
<1>3. Write(h, b, S) # h
  BY <1>1, <1>2
<1>4. Stored(Write(h, b, S)) = Stored(h) \cup S
  BY <1>1, <1>2 DEF Stored
<1>. QED
  BY <1>1, <1>2, <1>3, <1>4

\* A rewrite keeps the set of stored sessions.
LEMMA RewriteFacts ==
    ASSUME NEW h, NEW b, NEW S,
           S \subseteq Stored(h) \cap Stored(b.rows)
    PROVE  /\ Stored(Write(h, b, S)) = Stored(h)
           /\ \A s \in Session :
                Write(h, b, S)[s] # h[s] => /\ s \in S /\ h[s] # NoRow
                                            /\ Write(h, b, S)[s] = b.rows[s]
BY DEF Write, Stored

\* The sessions a batch changes are stored and proposed, and change.
LEMMA ChangedFacts ==
    ASSUME NEW h \in History, NEW b, Changed(h, b) # {}
    PROVE  /\ Changed(h, b) \subseteq Stored(h) \cap Stored(b.rows)
           /\ Write(h, b, Changed(h, b)) # h
<1>1. \A s \in Changed(h, b) : /\ s \in Session /\ s \in Stored(h)
                               /\ b.rows[s] # NoRow /\ b.rows[s] # h[s]
  BY DEF Changed, Window, Stored
<1>2. \A s \in Changed(h, b) : Write(h, b, Changed(h, b))[s] = b.rows[s]
  BY <1>1 DEF Write
<1>3. Write(h, b, Changed(h, b)) # h
  BY <1>1, <1>2
<1>. QED
  BY <1>1, <1>3 DEF Stored

\* A batch was admitted only if the whole window of the stored history is in
\* the batch: what makes the next comparison of the same batch a confirmation.
Agrees(h, b) == Matches(h, b) /\ Missing(h, b) = {} /\ Window(h, b) # {}

\* A row of the batch that is not new lies inside the window.
LEMMA OldRowsInside ==
    ASSUME NEW h \in History, NEW b \in CandidateBatch, NEW s \in Stored(b.rows),
           ~After(h, s)
    PROVE  Within(h, s) /\ (h[s] # NoRow => s \in Window(h, b))
<1>1. PICK t \in Stored(h) : ~(t < s)
  BY DEF After
<1>2. t \in Nat /\ s \in Nat /\ s \in Session /\ b.lo <= s /\ s <= b.hi
  BY <1>1, SessionsAssumption DEF Stored, Session, CandidateBatch
<1>3. s <= t
  BY <1>1, <1>2
<1>. QED
  BY <1>2, <1>3 DEF Within, Window, Stored

\* An admitted batch is whole and value for value stored after its append.
LEMMA AdmittedAgrees ==
    ASSUME NEW h \in History, NEW b \in CandidateBatch, Admitted(h, b),
           Stored(b.rows) # {} \/ Stored(h) # {}
    PROVE  Agrees(Write(h, b, NewSessions(h, b)), b)
<1>. DEFINE S == NewSessions(h, b)
            w == Write(h, b, S)
<1>1. \A s \in Session : w[s] = IF s \in S THEN b.rows[s] ELSE h[s]
  BY DEF Write
<1>2. \A s \in S : s \in Session /\ b.rows[s] # NoRow
  BY DEF NewSessions, Stored
<1>3. \A s \in Stored(b.rows) : s \in Session /\ b.rows[s] # NoRow
                                /\ b.lo <= s /\ s <= b.hi
  BY DEF Stored, CandidateBatch
<1>4. CASE Stored(h) = {}
  <2>1. S = Stored(b.rows)
    BY <1>4 DEF NewSessions, After
  <2>2. Stored(w) = Stored(b.rows)
    BY <1>1, <1>4, <2>1 DEF Stored
  <2>3. Window(w, b) = Stored(b.rows)
    BY <1>3, <2>2 DEF Window
  <2>. QED
    BY <1>1, <1>3, <1>4, <2>1, <2>3 DEF Agrees, Matches, Missing
<1>5. CASE Stored(h) # {}
  <2>1. /\ Window(h, b) # {} /\ Changed(h, b) = {} /\ Missing(h, b) = {}
        /\ UnstoredInside(h, b) = {}
    BY <1>5 DEF Admitted, AdmittedResult, Classify
  <2>2. ASSUME NEW s \in Stored(b.rows) PROVE w[s] = b.rows[s]
    <3>1. CASE s \in S
      BY <1>1, <1>2, <3>1
    <3>2. CASE s \notin S
      <4>1. Within(h, s) /\ (h[s] # NoRow => s \in Window(h, b))
        BY <3>2, OldRowsInside DEF NewSessions
      <4>2. h[s] # NoRow
        BY <2>1, <4>1 DEF UnstoredInside
      <4>3. b.rows[s] = h[s]
        BY <1>3, <2>1, <4>1, <4>2 DEF Changed
      <4>. QED
        BY <1>1, <1>3, <3>2, <4>3
    <3>. QED
      BY <3>1, <3>2
  <2>3. \A s \in Window(w, b) : b.rows[s] # NoRow
    <3>1. SUFFICES ASSUME NEW s \in Window(w, b), s \notin S PROVE b.rows[s] # NoRow
      BY <1>2
    <3>2. s \in Window(h, b)
      BY <1>1, <3>1 DEF Window, Stored
    <3>. QED
      BY <2>1, <3>2 DEF Missing
  <2>4. Window(h, b) \subseteq Window(w, b)
    BY <1>1, <1>2 DEF Window, Stored
  <2>. QED
    BY <2>1, <2>2, <2>3, <2>4 DEF Agrees, Matches, Missing
<1>. QED
  BY <1>4, <1>5
=============================================================================
