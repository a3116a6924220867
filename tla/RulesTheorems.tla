--------------------------- MODULE RulesTheorems ----------------------------
(***************************************************************************)
(* The promises of the two pure rules: of classify_overlap for every       *)
(* calendar, every set of OHLCV tuples, every stored history and every     *)
(* candidate batch; of ExitEngine for every price, policy and number of    *)
(* sessions.  And those of the transactional market-data path for every    *)
(* calendar, every set of prepared batches and operation ids, every legacy *)
(* history and any number of operations: its properties speak of the       *)
(* committed database, the invariant asserts them of the transaction's     *)
(* draft as well, so that a commit has nothing left to show.               *)
(***************************************************************************)
EXTENDS OverlapCheck, OverlapLemmas, ExitCheck, ShadowProperties

CheckInv ==
    /\ stored \in History
    /\ batch \in CandidateBatch
    /\ Stored(batch.rows) # {} \/ Stored(stored) # {}
    /\ verdict \in AdmittedResult => Agrees(stored, batch)

\* A batch that agrees with the history is confirmed, and appends nothing.
LEMMA AgreeingIsConfirmed ==
    ASSUME NEW h \in History, NEW b \in CandidateBatch, Agrees(h, b)
    PROVE  /\ Classify(h, b) = "ADMITTED_NO_NEW_SESSIONS"
           /\ Write(h, b, NewSessions(h, b)) = h
           /\ Stored(b.rows) \subseteq Confirmed(h, b)
<1>1. \A s \in Stored(b.rows) : /\ s \in Session /\ h[s] = b.rows[s]
                                /\ b.rows[s] # NoRow /\ s \in Stored(h)
                                /\ b.lo <= s /\ s <= b.hi
  BY DEF Agrees, Matches, Stored, CandidateBatch
<1>2. NewSessions(h, b) = {}
  <2>1. SUFFICES ASSUME NEW s \in NewSessions(h, b) PROVE FALSE
    OBVIOUS
  <2>2. s < s /\ s \in Nat
    BY <1>1, SessionsAssumption DEF NewSessions, After, Session
  <2>. QED
    BY <2>2
<1>3. Changed(h, b) = {}
  BY <1>1 DEF Changed, Stored, Window
<1>4. UnstoredInside(h, b) = {}
  BY <1>1 DEF UnstoredInside
<1>5. Window(h, b) # {} /\ Missing(h, b) = {} /\ Stored(h) # {}
  BY DEF Agrees, Window
<1>6. Classify(h, b) = "ADMITTED_NO_NEW_SESSIONS"
  BY <1>2, <1>3, <1>4, <1>5 DEF Classify
<1>7. Write(h, b, {}) = h
  BY DEF Write, History
<1>8. Stored(b.rows) \subseteq Confirmed(h, b)
  BY <1>1 DEF Confirmed, Window
<1>. QED
  BY <1>2, <1>6, <1>7, <1>8

\* An admitted batch keeps agreeing with the history.
LEMMA CheckInvNext ==
    ASSUME CheckInv, [Compare]_overlapVars
    PROVE  CheckInv'
<1>1. CASE UNCHANGED overlapVars
  BY <1>1 DEF CheckInv, overlapVars
<1>2. CASE Compare
  <2>. DEFINE w == Write(stored, batch, NewSessions(stored, batch))
  <2>1. CASE Admitted(stored, batch)
    <3>1. Agrees(w, batch)
      BY <2>1, AdmittedAgrees DEF CheckInv
    <3>2. w \in History
      BY SessionSets DEF Write, History, CheckInv, CandidateBatch
    <3>3. Stored(w) # {}
      BY <3>1 DEF Agrees, Window
    <3>. QED
      BY <1>2, <2>1, <3>1, <3>2, <3>3 DEF CheckInv, Compare
  <2>2. CASE ~Admitted(stored, batch)
    BY <1>2, <2>2 DEF CheckInv, Compare, Admitted
  <2>. QED
    BY <2>1, <2>2
<1>. QED
  BY <1>1, <1>2

\* The invariant of the comparison and its retries.
LEMMA CheckInvHolds == OverlapSpec => []CheckInv
<1>1. OverlapInit => CheckInv
  BY DEF OverlapInit, CheckInv, AdmittedResult
<1>. QED
  BY <1>1, CheckInvNext, PTL DEF OverlapSpec

\* An admitted batch is stored whole, value for value, whatever the calendar:
\* the reuse of its receipt rests on this.
THEOREM AdmittedIsStored == OverlapSpec => []AdmittedBatchIsStored
<1>1. CheckInv => AdmittedBatchIsStored
  BY DEF CheckInv, AdmittedBatchIsStored, Agrees
<1>. QED
  BY <1>1, CheckInvHolds, PTL

\* Submitting an admitted batch again confirms every row and appends nothing.
THEOREM RetriesConfirm == OverlapSpec => RetryConfirms
<1>1. ASSUME CheckInv, [Compare]_overlapVars
      PROVE  [(verdict \in AdmittedResult) =>
                /\ verdict' = "ADMITTED_NO_NEW_SESSIONS"
                /\ stored' = stored
                /\ Stored(batch.rows) \subseteq Confirmed(stored, batch)]_overlapVars
  BY <1>1, AgreeingIsConfirmed DEF CheckInv, Compare, Admitted
<1>. QED
  BY <1>1, CheckInvHolds, PTL DEF OverlapSpec, RetryConfirms

\* No verdict rewrites or removes a row or fills a hole of the history.
THEOREM OnlyAppendsBehind == OverlapSpec => OnlyAppends
<1>1. ASSUME CheckInv, [Compare]_overlapVars
      PROVE  [\A s \in Session : stored'[s] # stored[s] =>
                stored[s] = NoRow /\ After(stored, s)]_overlapVars
  <2>. DEFINE S == NewSessions(stored, batch)
  <2>1. \A s \in S : stored[s] = NoRow /\ After(stored, s)
    BY <1>1, NewAreBehind DEF CheckInv
  <2>2. ASSUME Compare, NEW s \in Session, stored'[s] # stored[s] PROVE s \in S
    BY <2>2 DEF Compare, Write
  <2>. QED
    BY <1>1, <2>1, <2>2
<1>. QED
  BY <1>1, CheckInvHolds, PTL DEF OverlapSpec, OnlyAppends

-----------------------------------------------------------------------------
(***************************************************************************)
(* The exit engine.                                                        *)
(***************************************************************************)

ExitInv ==
    /\ config \in Configs
    /\ ValidBar(bar) /\ ValidPosition(position)
    /\ position = [entry |-> position.entry, stop |-> position.stop,
                   target |-> position.target, highest |-> position.highest,
                   trailing |-> position.trailing,
                   multiplier |-> position.multiplier, limit |-> position.limit]
    /\ decision = Evaluate(config, position, bar, session, signal)

\* An open beyond the stop or the target is itself the price of the exit.
LEMMA OpenExitPrice ==
    ASSUME NEW c, NEW s, NEW b, AtOpen(c, s, b) # Hold
    PROVE  AtOpen(c, s, b).price = b.open
  BY DEF AtOpen, StopExit, TargetExit, Exit

\* A level met during the session lies between the open and the extreme that
\* met it.
LEMMA SessionExitPrice ==
    ASSUME NEW c \in Configs, NEW s, NEW b, ValidBar(b), ValidPosition(s),
           AtOpen(c, s, b) = Hold, DuringSession(c, s, b) # Hold
    PROVE  /\ b.low <= DuringSession(c, s, b).price
           /\ DuringSession(c, s, b).price <= b.high
<1>. DEFINE stop == ActiveStop(c, s)
<1>1. /\ b.open \in Nat /\ b.low \in Nat /\ b.high \in Nat
      /\ b.low <= b.open /\ b.open <= b.high
  BY DEF ValidBar, Price
<1>2. s.target \in Nat /\ stop \in Nat
  BY DEF ValidPosition, ActiveStop, EffectiveStop, ActiveTrailing, Higher,
         Price, Level, NoPrice
<1>3. ~StoppedBy(c, s, b.open) /\ ~ReachedBy(c, s, b.open)
  BY DEF AtOpen, StopExit, TargetExit, Exit, Hold
<1>4. CASE TargetComesFirst(c, s, b)
  <2>1. DuringSession(c, s, b).price = s.target
    BY <1>4 DEF DuringSession, TargetExit, Exit
  <2>2. s.target <= b.high /\ b.open < s.target
    BY <1>1, <1>2, <1>3, <1>4 DEF TargetComesFirst, ReachedBy
  <2>. QED
    BY <1>1, <1>2, <2>1, <2>2
<1>5. CASE ~TargetComesFirst(c, s, b)
  <2>1. StoppedBy(c, s, b.low) /\ DuringSession(c, s, b).price = stop
    BY <1>5 DEF DuringSession, StopExit, Exit
  <2>2. b.low <= stop /\ stop < b.open
    BY <1>1, <1>2, <1>3, <2>1 DEF StoppedBy
  <2>. QED
    BY <1>1, <1>2, <2>1, <2>2
<1>. QED
  BY <1>4, <1>5

\* Any exit of a valid position is booked inside the range of its bar.
LEMMA ExitInsideBar ==
    ASSUME NEW c \in Configs, NEW s, NEW b, NEW n, NEW x,
           ValidBar(b), ValidPosition(s), Evaluate(c, s, b, n, x) # Hold
    PROVE  /\ b.low <= Evaluate(c, s, b, n, x).price
           /\ Evaluate(c, s, b, n, x).price <= b.high
<1>1. CASE AtOpen(c, s, b) # Hold
  BY <1>1, OpenExitPrice DEF Evaluate, ValidBar
<1>2. CASE AtOpen(c, s, b) = Hold /\ DuringSession(c, s, b) # Hold
  BY <1>2, SessionExitPrice DEF Evaluate
<1>3. CASE AtOpen(c, s, b) = Hold /\ DuringSession(c, s, b) = Hold
  <2>1. Evaluate(c, s, b, n, x).price = b.close
    BY <1>3 DEF Evaluate, AtClose, Exit
  <2>. QED
    BY <2>1 DEF ValidBar
<1>. QED
  BY <1>1, <1>2, <1>3

\* Carrying a position over keeps it valid and never lowers its stop.
LEMMA CarryRaisesStop ==
    ASSUME NEW c \in Configs, NEW s, NEW b, ValidBar(b), ValidPosition(s),
           s = [entry |-> s.entry, stop |-> s.stop, target |-> s.target,
                highest |-> s.highest, trailing |-> s.trailing,
                multiplier |-> s.multiplier, limit |-> s.limit]
    PROVE  /\ ValidPosition(Carry(c, s, b))
           /\ ActiveStop(c, Carry(c, s, b)) >= ActiveStop(c, s)
<1>. DEFINE t == Carry(c, s, b)
<1>1. /\ t.entry = s.entry /\ t.stop = s.stop /\ t.target = s.target
      /\ t.multiplier = s.multiplier /\ t.limit = s.limit
      /\ t.highest = HighestPrice(s, b) /\ t.trailing = NextTrailing(c, s, b)
  BY DEF Carry
<1>2. HighestPrice(s, b) \in Nat /\ NextTrailing(c, s, b) \in Nat
      /\ NextTrailing(c, s, b) >= s.trailing
  BY DEF HighestPrice, NextTrailing, Higher, ValidBar, ValidPosition, Price,
         Level, NoPrice
<1>3. ValidPosition(t)
  BY <1>1, <1>2 DEF ValidPosition, Level
<1>4. ActiveStop(c, t) >= ActiveStop(c, s)
  BY <1>1, <1>2 DEF ActiveStop, EffectiveStop, ActiveTrailing, Higher,
                    ValidPosition, Price, Level, NoPrice
<1>. QED
  BY <1>3, <1>4

\* Carrying over changes levels of the same record.
LEMMA CarryIsRecord ==
    ASSUME NEW c, NEW s, NEW b,
           s = [entry |-> s.entry, stop |-> s.stop, target |-> s.target,
                highest |-> s.highest, trailing |-> s.trailing,
                multiplier |-> s.multiplier, limit |-> s.limit],
           NEW t, t = Carry(c, s, b)
    PROVE  t = [entry |-> t.entry, stop |-> t.stop, target |-> t.target,
                highest |-> t.highest, trailing |-> t.trailing,
                multiplier |-> t.multiplier, limit |-> t.limit]
  BY DEF Carry

LEMMA ExitInvInit == ExitInit => ExitInv
<1>. SUFFICES ASSUME ExitInit PROVE ExitInv
  OBVIOUS
<1>1. ValidBar(bar)
  BY DEF ExitInit, Bars
<1>. QED
  BY <1>1 DEF ExitInit, ExitInv

LEMMA ExitInvStep == ExitInv /\ [NextBar]_exitVars => ExitInv'
<1>. SUFFICES ASSUME ExitInv, [NextBar]_exitVars PROVE ExitInv'
  OBVIOUS
<1>1. CASE NextBar
  <2>1. /\ position' = Carry(config, position, bar) /\ config' = config
        /\ bar' \in Bars
        /\ decision' = Evaluate(config', position', bar', session', signal')
    BY <1>1 DEF NextBar, Decide
  <2>2. ValidBar(bar')
    BY <2>1 DEF Bars
  <2>3. ValidPosition(position')
    BY <2>1, CarryRaisesStop DEF ExitInv
  <2>. QED
    BY <2>1, <2>2, <2>3, CarryIsRecord DEF ExitInv
<1>2. CASE UNCHANGED exitVars
  BY <1>2 DEF ExitInv, exitVars
<1>. QED
  BY <1>1, <1>2

LEMMA ExitInvHolds == ExitSpec => []ExitInv
  BY ExitInvInit, ExitInvStep, PTL DEF ExitSpec

\* Whatever the policy, the prices and the number of sessions held, an exit is
\* booked at a price inside the bar of its session.
THEOREM ExitsAtTradedPrice == ExitSpec => []ExitPriceWasTraded
<1>1. ExitInv => ExitPriceWasTraded
  BY ExitInsideBar DEF ExitInv, ExitPriceWasTraded
<1>. QED
  BY <1>1, ExitInvHolds, PTL

\* Whatever the policy and the prices, holding a position for another session
\* never lowers the stop that protects it.
THEOREM StopOnlyRises == ExitSpec => StopNeverFalls
<1>1. ExitInv /\ [NextBar]_exitVars
      => [ActiveStop(config, position') >= ActiveStop(config, position)]_exitVars
  BY CarryRaisesStop DEF NextBar, Decide, ExitInv
<1>. QED
  BY <1>1, ExitInvHolds, PTL DEF ExitSpec, StopNeverFalls

\* Where a path meets a level and has met none before is where it is first met.
LEMMA FirstMetIs ==
    ASSUME NEW path, NEW i \in 1 .. 4, Meets(path, i),
           \A k \in 1 .. 4 : k < i => ~Meets(path, k)
    PROVE  /\ FirstMet(path) = i
           /\ PathPrice(path) =
                IF i = 1 THEN path[1]
                ELSE IF StoppedBy(config, position, path[i])
                     THEN ActiveStop(config, position) ELSE position.target
<1>. DEFINE P(k) == Meets(path, k) /\ \A m \in 1 .. k - 1 : ~Meets(path, m)
<1>1. P(i)
  OBVIOUS
<1>2. ASSUME NEW k \in 1 .. 4, P(k) PROVE k = i
  <2>1. ~(k < i)
    BY <1>2
  <2>2. ~(i < k)
    BY <1>2
  <2>. QED
    BY <2>1, <2>2
<1>3. FirstMet(path) = i
  <2>1. FirstMet(path) = CHOOSE k \in 1 .. 4 : P(k)
    BY DEF FirstMet
  <2>. HIDE DEF P
  <2>. QED
    BY <1>1, <1>2, <2>1
<1>. QED
  BY <1>3 DEF PathPrice

\* What the two paths through a bar are priced at, when both are.
PathsPriced(x, y) ==
    /\ PathPrice(<<bar.open, bar.low, bar.high, bar.close>>) = x
    /\ PathPrice(<<bar.open, bar.high, bar.low, bar.close>>) = y

\* The decision compared with the prices of the paths.
WorstOf(x, y) ==
    /\ (decision.reason \in {"STOP_LOSS", "TRAILING_STOP", "TAKE_PROFIT"})
          <=> ~(x = NoPrice /\ y = NoPrice)
    /\ ~(x = NoPrice /\ y = NoPrice) =>
          /\ decision.price \in {x, y}
          /\ IF config.first = "CONSERVATIVE_STOP"
             THEN decision.price <= x /\ decision.price <= y
             ELSE decision.price >= x /\ decision.price >= y

\* The comparison decides the property.
LEMMA WorstIsEnough ==
    ASSUME NEW x, NEW y, PathsPriced(x, y), WorstOf(x, y)
    PROVE  ExitTakesWorstPath
<1>1. {PathPrice(p) : p \in Paths(bar)} = {x, y}
  BY DEF Paths, PathsPriced
<1>2. {x, y} = {NoPrice} <=> x = NoPrice /\ y = NoPrice
  OBVIOUS
<1>. PICK prices : prices = {PathPrice(p) : p \in Paths(bar)}
  OBVIOUS
<1>3. \A p \in prices : p = x \/ p = y
  BY <1>1
<1>4. prices # {NoPrice} <=> ~(x = NoPrice /\ y = NoPrice)
  BY <1>1, <1>2
<1>5. decision.price \in prices <=> decision.price \in {x, y}
  BY <1>1
<1>. QED
  BY <1>3, <1>4, <1>5 DEF ExitTakesWorstPath, WorstOf

\* A level met at the open prices both paths; one met during the session prices
\* those that come to it.
LEMMA WorstOfBar == ExitInv => ExitTakesWorstPath
<1>. SUFFICES ASSUME ExitInv PROVE ExitTakesWorstPath
  OBVIOUS
<1>. PICK c : c = config
  OBVIOUS
<1>. PICK s : s = position
  OBVIOUS
<1>. PICK stop : stop = ActiveStop(c, s)
  OBVIOUS
<1>. PICK target : target = s.target
  OBVIOUS
<1>. PICK down : down = <<bar.open, bar.low, bar.high, bar.close>>
  OBVIOUS
<1>. PICK up : up = <<bar.open, bar.high, bar.low, bar.close>>
  OBVIOUS
<1>1. /\ bar.open \in Nat \ {0} /\ bar.low \in Nat \ {0} /\ bar.high \in Nat \ {0}
      /\ bar.close \in Nat \ {0}
      /\ bar.low <= bar.open /\ bar.open <= bar.high
      /\ bar.low <= bar.close /\ bar.close <= bar.high
  BY DEF ExitInv, ValidBar, Price, NoPrice
<1>2. target \in Nat /\ stop \in Nat \ {0}
  BY DEF ExitInv, ValidPosition, ActiveStop, EffectiveStop, ActiveTrailing, Higher,
         Price, Level, NoPrice
<1>3. /\ c.first \in {"CONSERVATIVE_STOP", "OPTIMISTIC_TARGET"}
      /\ c.stop \in BOOLEAN /\ c.target \in BOOLEAN
  BY PolicyAssumption DEF ExitInv
<1>4. /\ \A x : StoppedBy(c, s, x) <=> c.stop /\ x <= stop
      /\ \A x : ReachedBy(c, s, x) <=> c.target /\ target # 0 /\ x >= target
  BY DEF StoppedBy, ReachedBy, NoPrice
<1>5. decision = Evaluate(c, s, bar, session, signal)
  BY DEF ExitInv
<1>6. \A i : /\ Meets(down, i) <=> StoppedBy(c, s, down[i]) \/ ReachedBy(c, s, down[i])
             /\ Meets(up, i) <=> StoppedBy(c, s, up[i]) \/ ReachedBy(c, s, up[i])
  BY DEF Meets
<1>7. /\ down[1] = bar.open /\ down[2] = bar.low /\ down[3] = bar.high /\ down[4] = bar.close
      /\ up[1] = bar.open /\ up[2] = bar.high /\ up[3] = bar.low /\ up[4] = bar.close
  OBVIOUS
<1>8. CASE StoppedBy(c, s, bar.open) \/ ReachedBy(c, s, bar.open)
  <2>1. Meets(down, 1) /\ Meets(up, 1)
    BY <1>6, <1>7, <1>8
  <2>2. PathPrice(down) = bar.open /\ PathPrice(up) = bar.open
    BY <1>7, <2>1, FirstMetIs
  <2>3. /\ decision.price = bar.open
        /\ decision.reason \in {"STOP_LOSS", "TRAILING_STOP", "TAKE_PROFIT"}
    BY <1>5, <1>8 DEF Evaluate, AtOpen, StopExit, TargetExit, Exit, Hold
  <2>. QED
    BY <1>1, <2>2, <2>3, WorstIsEnough DEF WorstOf, PathsPriced, NoPrice
<1>9. CASE ~StoppedBy(c, s, bar.open) /\ ~ReachedBy(c, s, bar.open)
  <2>1. decision = IF DuringSession(c, s, bar) # Hold THEN DuringSession(c, s, bar)
                   ELSE AtClose(c, s, bar, session, signal)
    BY <1>5, <1>9 DEF Evaluate, AtOpen, Hold
  <2>2. /\ c.stop => stop < bar.open
        /\ c.target /\ target # 0 => bar.open < target
    BY <1>1, <1>2, <1>4, <1>9
  <2>3. /\ ~StoppedBy(c, s, bar.high) /\ ~ReachedBy(c, s, bar.low)
        /\ StoppedBy(c, s, bar.close) => StoppedBy(c, s, bar.low)
        /\ ReachedBy(c, s, bar.close) => ReachedBy(c, s, bar.high)
    BY <1>1, <1>2, <1>4, <2>2
  <2>4. ~Meets(down, 1) /\ ~Meets(up, 1)
    BY <1>6, <1>7, <1>9
  <2>5. CASE ~StoppedBy(c, s, bar.low) /\ ~ReachedBy(c, s, bar.high)
    <3>1. \A i \in 1 .. 4 : ~Meets(down, i) /\ ~Meets(up, i)
      <4>1. \A i \in 1 .. 4 : i = 1 \/ i = 2 \/ i = 3 \/ i = 4
        OBVIOUS
      <4>. QED
        BY <1>6, <1>7, <2>3, <2>4, <2>5, <4>1
    <3>2. PathPrice(down) = NoPrice /\ PathPrice(up) = NoPrice
      BY <3>1 DEF PathPrice
    <3>3. decision.reason \notin {"STOP_LOSS", "TRAILING_STOP", "TAKE_PROFIT"}
      BY <2>1, <2>5
         DEF DuringSession, TargetComesFirst, AtClose, Exit, Hold
    <3>. QED
      BY <3>2, <3>3, WorstIsEnough DEF WorstOf, PathsPriced
  <2>6. CASE StoppedBy(c, s, bar.low) /\ ~ReachedBy(c, s, bar.high)
    <3>1. Meets(down, 2) /\ ~Meets(up, 2) /\ Meets(up, 3)
      BY <1>6, <1>7, <2>3, <2>6
    <3>2. PathPrice(down) = stop
      BY <1>7, <2>4, <2>6, <3>1, FirstMetIs
    <3>3. PathPrice(up) = stop
      <4>1. \A k \in 1 .. 4 : k < 3 => k = 1 \/ k = 2
        OBVIOUS
      <4>. QED
        BY <1>7, <2>4, <2>6, <3>1, <4>1, FirstMetIs
    <3>4. /\ decision.price = stop
          /\ decision.reason \in {"STOP_LOSS", "TRAILING_STOP", "TAKE_PROFIT"}
      BY <2>1, <2>6
         DEF DuringSession, TargetComesFirst, StopExit, Exit, Hold
    <3>. QED
      BY <1>2, <3>2, <3>3, <3>4, WorstIsEnough DEF WorstOf, PathsPriced, NoPrice
  <2>7. CASE ~StoppedBy(c, s, bar.low) /\ ReachedBy(c, s, bar.high)
    <3>1. ~Meets(down, 2) /\ Meets(down, 3) /\ Meets(up, 2)
      BY <1>6, <1>7, <2>3, <2>7
    <3>2. PathPrice(up) = target
      BY <1>7, <2>3, <2>4, <3>1, FirstMetIs
    <3>3. PathPrice(down) = target
      <4>1. \A k \in 1 .. 4 : k < 3 => k = 1 \/ k = 2
        OBVIOUS
      <4>. QED
        BY <1>7, <2>3, <2>4, <3>1, <4>1, FirstMetIs
    <3>4. /\ decision.price = target
          /\ decision.reason \in {"STOP_LOSS", "TRAILING_STOP", "TAKE_PROFIT"}
      BY <2>1, <2>7
         DEF DuringSession, TargetComesFirst, TargetExit, Exit, Hold
    <3>5. target \in Nat \ {0}
      BY <1>2, <1>4, <2>7
    <3>. QED
      BY <3>2, <3>3, <3>4, <3>5, WorstIsEnough DEF WorstOf, PathsPriced, NoPrice
  <2>8. CASE StoppedBy(c, s, bar.low) /\ ReachedBy(c, s, bar.high)
    <3>1. Meets(down, 2) /\ Meets(up, 2)
      BY <1>6, <1>7, <2>8
    <3>2. PathPrice(down) = stop
      BY <1>7, <2>4, <2>8, <3>1, FirstMetIs
    <3>3. PathPrice(up) = target
      BY <1>7, <2>3, <2>4, <3>1, FirstMetIs
    <3>4. target \in Nat \ {0} /\ stop < target
      BY <1>1, <1>2, <1>4, <2>2, <2>8
    <3>5. decision.reason \in {"STOP_LOSS", "TRAILING_STOP", "TAKE_PROFIT"}
      BY <2>1, <2>8
         DEF DuringSession, TargetComesFirst, TargetExit, StopExit, Exit, Hold
    <3>6. decision.price = IF c.first = "OPTIMISTIC_TARGET" THEN target ELSE stop
      BY <2>1, <2>8
         DEF DuringSession, TargetComesFirst, TargetExit, StopExit, Exit, Hold
    <3>7. WorstOf(stop, target)
      BY <1>2, <1>3, <3>4, <3>5, <3>6 DEF WorstOf, NoPrice
    <3>. QED
      BY <3>2, <3>3, <3>7, WorstIsEnough DEF PathsPriced
  <2>. QED
    BY <2>5, <2>6, <2>7, <2>8
<1>. QED
  BY <1>8, <1>9

\* Whatever the policy and the prices, a position that meets its stop or its target in
\* a session leaves at the worst price that a path of the price through the bar
\* allows, or at the best one under OPTIMISTIC_TARGET; and only then.
THEOREM ExitsAtWorstPrice == ExitSpec => []ExitTakesWorstPath
  BY WorstOfBar, ExitInvHolds, PTL

-----------------------------------------------------------------------------
(* The transactional market-data path. *)

\* Rows are only added, each behind every stored one.
Grows(old, new) ==
    \A d \in Day : new[d] # old[d] => old[d] = Absent /\ \A e \in Has(old) : e < d

\* ReceiptsDescribeHistory, of any database.
Described(base) ==
    /\ \A r \in base.receipts : r.outcome.status = "APPROVED" =>
            \A d \in Has(r.batch.rows) : base.rows[d] = r.batch.rows[d]
    /\ \A d \in Day : base.link[d] # NoOp =>
            \E r \in base.receipts :
                /\ r.op = base.link[d] /\ r.outcome.status = "APPROVED"
                /\ d \in Has(r.batch.rows)
                /\ [op |-> r.op, basis |-> r.batch.basis] \in base.manifests

\* PassKeepsOneBasis, of any database.
OneBasis(base) ==
    \A r \in base.receipts :
        r.outcome.status = "APPROVED" /\ r.outcome.decision = "PASS" =>
            \A d \in Has(r.batch.rows) : Known(base, d) = r.batch.basis

\* An operation has one manifest, and only with its receipt.
ManifestsBacked(base) ==
    /\ \A m \in base.manifests : \E r \in base.receipts : r.op = m.op
    /\ \A m, n \in base.manifests : m.op = n.op => m = n

Sound(base) ==
    base \in Database /\ Described(base) /\ OneBasis(base) /\ ManifestsBacked(base)

\* GenerationsFormOneChain without the receipts, of any database.
Chained(base) ==
    \A o \in base.observations :
        /\ o.generation = 0 <=> o.revisionOf = NoOp
        /\ o.generation > 0 =>
            \E p \in base.observations :
                /\ p.request = o.request /\ p.op = o.revisionOf
                /\ p.generation = o.generation - 1
        /\ \A p \in base.observations :
            p.request = o.request /\ (p.generation = o.generation \/ p.payload = o.payload)
                => p = o

Receipted(base, o) == \E r \in base.receipts : r.op = o.op /\ r.batch.rows = o.payload

\* While an operation is identified but not decided its own observation has
\* no receipt yet.
Undecided(o) ==
    /\ txn.stage = "IDENTIFIED"
    /\ o.op = txn.op /\ o.payload = txn.batch.rows

TxnType ==
    [stage : {"BEGUN", "IDENTIFIED", "DECIDED"}, writer : {"SHADOW", "GUARDED"},
     batch : Batches, op : Operation \cup {NoOp}]

\* What a stage may rely on: nothing is drafted before the decision but the
\* allocated observation, and what is drafted after it only adds at the end.
TxnInv ==
    /\ txn = Idle \/ txn \in TxnType
    /\ txn.stage \in {"IDLE", "BEGUN"} => draft = db
    /\ txn.stage \in {"IDENTIFIED", "DECIDED"} => txn.op \in Operation
    /\ txn.stage = "IDENTIFIED" => draft.rows = db.rows
    /\ Grows(db.rows, draft.rows)

ShadowInv ==
    /\ Sound(db) /\ Sound(draft)
    /\ Chained(db) /\ Chained(draft)
    /\ \A o \in db.observations : Receipted(db, o)
    /\ \A o \in draft.observations : Receipted(draft, o) \/ Undecided(o)
    /\ TxnInv

-----------------------------------------------------------------------------
(***************************************************************************)
(* The guard and the admission.                                            *)
(***************************************************************************)

\* A guard that passes has seen one verified basis, that of the batch, on every
\* stored day the batch reports, and no day that would fill a hole.
LEMMA PassRules ==
    ASSUME NEW rows \in Rows, NEW known, NEW b \in BatchType,
           GuardDecision(rows, known, b) = "PASS"
    PROVE  /\ HistoricalInsert(rows, b) = {}
           /\ \A d \in Overlap(rows, b) : known[d] = b.basis
<1>1. /\ ~Blocking(rows, known, b) /\ ~BasisUnverified(rows, known, b)
      /\ ~OtherwiseInsufficient(rows, b)
  BY DEF GuardDecision
<1>2. PICK x \in Basis : PersistedBasis(rows, known, b, x)
  BY <1>1 DEF BasisUnverified
<1>3. x = b.basis
  BY <1>1, <1>2 DEF Blocking, BasisUnverified
<1>. QED
  BY <1>1, <1>2, <1>3 DEF OtherwiseInsufficient, PersistedBasis, RelevantSessions

\* What may be stored by the shadow writer neither revises nor fills in.
LEMMA AdmissionRules ==
    ASSUME NEW rows, NEW known, NEW b,
           OperationalAdmission(rows, known, b) \in WriteApproved
    PROVE  HistoricalInsert(rows, b) = {} /\ Revised(rows, b) = {}
  BY DEF OperationalAdmission, WriteApproved

Extended(rows, b, days) == [d \in Day |-> IF d \in days THEN b.rows[d] ELSE rows[d]]

\* Storing such a batch, its new days or all of it, adds its new days at the
\* end and leaves it stored whole.
LEMMA StoringAppends ==
    ASSUME NEW rows \in Rows, NEW b \in BatchType, NEW days \in SUBSET Day,
           HistoricalInsert(rows, b) = {}, Revised(rows, b) = {},
           days \in {GenuinelyNew(rows, b), Has(b.rows)}
    PROVE  /\ Extended(rows, b, days) \in Rows
           /\ Grows(rows, Extended(rows, b, days))
           /\ \A d \in Has(b.rows) : Extended(rows, b, days)[d] = b.rows[d]
           /\ \A d \in Has(rows) : Extended(rows, b, days)[d] = rows[d]
<1>. DEFINE new == Extended(rows, b, days)
<1>1. b.rows \in Rows
  BY DEF BatchType
<1>2. \A d \in Day : new[d] = IF d \in days THEN b.rows[d] ELSE rows[d]
  BY DEF Extended
<1>3. new \in Rows
  BY <1>1 DEF Extended, Rows
<1>4. \A d \in Has(b.rows) : d \in Overlap(rows, b) \/ d \in GenuinelyNew(rows, b)
  BY DEF HistoricalInsert
<1>5. \A d \in Overlap(rows, b) : rows[d] = b.rows[d]
  BY DEF Revised
<1>6. GenuinelyNew(rows, b) \subseteq Has(b.rows) /\ days \subseteq Has(b.rows)
  BY DEF GenuinelyNew
<1>7. \A d \in GenuinelyNew(rows, b) : rows[d] = Absent
  <2>1. SUFFICES ASSUME NEW d \in GenuinelyNew(rows, b), d \in Has(rows)
                 PROVE  FALSE
    BY <1>6 DEF Has
  <2>2. d < d /\ d \in Nat
    BY <2>1, LastDayAssumption DEF GenuinelyNew, Has, Day
  <2>. QED
    BY <2>2
<1>8. \A d \in Has(b.rows) : new[d] = b.rows[d]
  BY <1>2, <1>4, <1>5, <1>6 DEF Has, Overlap
<1>9. \A d \in Has(rows) : new[d] = rows[d]
  BY <1>2, <1>5, <1>6 DEF Has, Overlap
<1>10. ASSUME NEW d \in Day, new[d] # rows[d]
       PROVE  rows[d] = Absent /\ \A e \in Has(rows) : e < d
  <2>1. d \in Has(b.rows) /\ d \notin Overlap(rows, b)
    BY <1>2, <1>5, <1>6, <1>10
  <2>2. d \in GenuinelyNew(rows, b)
    BY <1>4, <2>1
  <2>. QED
    BY <1>7, <2>2 DEF GenuinelyNew
<1>. QED
  BY <1>3, <1>8, <1>9, <1>10 DEF Grows

-----------------------------------------------------------------------------
(***************************************************************************)
(* The database after a decision.                                          *)
(***************************************************************************)

Answer(op, b, status, ruling) ==
    [op |-> op, batch |-> b, outcome |-> [status |-> status, decision |-> ruling]]

Approval(base, op, b, ruling, days) ==
    [base EXCEPT
        !.receipts = @ \cup {Answer(op, b, "APPROVED", ruling)},
        !.manifests = @ \cup {[op |-> op, basis |-> b.basis]},
        !.rows = Extended(@, b, days),
        !.link = [d \in Day |-> IF d \in days THEN op ELSE @[d]]]

Rejection(base, op, b, ruling, stages) ==
    [base EXCEPT
        !.receipts = @ \cup {Answer(op, b, "REJECTED", ruling)},
        !.staged = IF stages THEN @ \cup {op} ELSE @]

Decisions == {"PASS", "BLOCK", "INSUFFICIENT_EVIDENCE"}

\* The basis of a linked day is the one of the manifest it is linked to.
LEMMA KnownIsManifest ==
    ASSUME NEW base, ManifestsBacked(base), NEW d,
           NEW m \in base.manifests, m.op = base.link[d]
    PROVE  Known(base, d) = m.basis
<1>. DEFINE n == CHOOSE n \in base.manifests : n.op = base.link[d]
<1>1. n \in base.manifests /\ n.op = base.link[d]
  OBVIOUS
<1>2. n = m
  BY <1>1 DEF ManifestsBacked
<1>. QED
  BY <1>2 DEF Known

\* An answer is a receipt.
LEMMA AnswerIsReceipt ==
    ASSUME NEW op \in Operation, NEW b \in Batches,
           NEW status \in {"APPROVED", "REJECTED"}, NEW ruling \in Decisions
    PROVE  Answer(op, b, status, ruling) \in Receipt
  BY DEF Answer, Receipt, Outcome, Decisions

\* The record fields of a database.
LEMMA DatabaseFields ==
    ASSUME NEW base \in Database
    PROVE  /\ base.rows \in Rows /\ base.link \in [Day -> Operation \cup {NoOp}]
           /\ base.receipts \subseteq Receipt
           /\ \A m \in base.manifests : m.op \in Operation
           /\ base.staged \subseteq Operation
           /\ base.observations \subseteq Observation
  BY DEF Database

\* A rejection changes nothing a reader of rows and provenance can see.
LEMMA RejectionKeepsSound ==
    ASSUME NEW base, Sound(base), NEW op \in Operation, NEW b \in Batches,
           NEW ruling \in Decisions, NEW stages \in BOOLEAN
    PROVE  /\ Sound(Rejection(base, op, b, ruling, stages))
           /\ Rejection(base, op, b, ruling, stages).rows = base.rows
<1>. DEFINE new == Rejection(base, op, b, ruling, stages)
            r == Answer(op, b, "REJECTED", ruling)
<1>1. base \in Database
  BY DEF Sound
<1>2. /\ new.rows = base.rows /\ new.link = base.link /\ new.manifests = base.manifests
      /\ new.receipts = base.receipts \cup {r}
      /\ new.observations = base.observations
  BY <1>1 DEF Rejection, Database
<1>3. r \in Receipt /\ r.outcome.status = "REJECTED"
  BY AnswerIsReceipt DEF Answer
<1>4. new \in Database
  BY <1>1, <1>3 DEF Rejection, Database
<1>5. Described(new)
  BY <1>2, <1>3 DEF Sound, Described
<1>6. \A d : Known(new, d) = Known(base, d)
  BY <1>2 DEF Known
<1>7. OneBasis(new)
  BY <1>2, <1>3, <1>6 DEF Sound, OneBasis
<1>8. ManifestsBacked(new)
  BY <1>2 DEF Sound, ManifestsBacked
<1>. QED
  BY <1>2, <1>4, <1>5, <1>7, <1>8 DEF Sound

\* The basis of a day after an approval: that of the new manifest where the day
\* is relinked, and what it was elsewhere.
LEMMA ApprovalLinks ==
    ASSUME NEW base, Sound(base), NEW op \in Operation, NEW b \in Batches,
           NEW ruling \in Decisions, NEW days \in SUBSET Day,
           \A r \in base.receipts : r.op # op
    PROVE  LET new == Approval(base, op, b, ruling, days)
           IN  /\ ManifestsBacked(new)
               /\ \A d \in days : Known(new, d) = b.basis
               /\ \A d \in Day \ days : Known(new, d) = Known(base, d)
<1>. DEFINE new == Approval(base, op, b, ruling, days)
            r == Answer(op, b, "APPROVED", ruling)
            m == [op |-> op, basis |-> b.basis]
<1>1. base \in Database /\ ManifestsBacked(base) /\ Described(base)
  BY DEF Sound
<1>2. /\ new.receipts = base.receipts \cup {r}
      /\ new.manifests = base.manifests \cup {m}
      /\ new.link = [d \in Day |-> IF d \in days THEN op ELSE base.link[d]]
  BY <1>1 DEF Approval, Database
<1>3. \A n \in base.manifests : n.op # op
  BY <1>1 DEF ManifestsBacked
<1>4. ManifestsBacked(new)
  <2>1. r.op = op /\ m.op = op
    BY DEF Answer
  <2>2. \A n \in new.manifests : \E q \in new.receipts : q.op = n.op
    BY <1>1, <1>2, <2>1 DEF ManifestsBacked
  <2>3. \A n, k \in new.manifests : n.op = k.op => n = k
    BY <1>1, <1>2, <1>3, <2>1 DEF ManifestsBacked
  <2>. QED
    BY <2>2, <2>3 DEF ManifestsBacked
<1>5. ASSUME NEW d \in days
      PROVE  Known(new, d) = b.basis
  <2>1. m \in new.manifests /\ m.op = new.link[d]
    BY <1>2
  <2>. QED
    BY <1>4, <2>1, KnownIsManifest
<1>6. ASSUME NEW d \in Day \ days
      PROVE  Known(new, d) = Known(base, d)
  <2>1. new.link[d] = base.link[d]
    BY <1>2
  <2>2. base.link[d] # op
    <3>1. CASE base.link[d] = NoOp
      BY <3>1, NoOpIsNone
    <3>2. CASE base.link[d] # NoOp
      BY <1>1, <3>2 DEF Described
    <3>. QED
      BY <3>1, <3>2
  <2>3. CASE \E n \in base.manifests : n.op = base.link[d]
    <3>1. PICK n \in base.manifests : n.op = base.link[d]
      BY <2>3
    <3>2. Known(base, d) = n.basis
      BY <1>1, <3>1, KnownIsManifest
    <3>3. n \in new.manifests /\ n.op = new.link[d]
      BY <1>2, <2>1, <3>1
    <3>4. Known(new, d) = n.basis
      BY <1>4, <3>3, KnownIsManifest
    <3>. QED
      BY <3>2, <3>4
  <2>4. CASE ~\E n \in base.manifests : n.op = base.link[d]
    <3>1. ~\E n \in new.manifests : n.op = new.link[d]
      BY <1>2, <2>1, <2>2, <2>4
    <3>. QED
      BY <2>4, <3>1 DEF Known
  <2>. QED
    BY <2>3, <2>4
<1>. QED
  BY <1>4, <1>5, <1>6

\* An approval keeps the database sound.  When it upserts the whole batch the
\* guard has passed, so that a relinked day keeps the basis it had.
LEMMA ApprovalKeepsSound ==
    ASSUME NEW base, Sound(base), NEW op \in Operation, NEW b \in Batches,
           NEW days, \A r \in base.receipts : r.op # op,
           NEW ruling \in Decisions,
           ruling = GuardDecision(base.rows, KnownBasis(base), b),
           HistoricalInsert(base.rows, b) = {}, Revised(base.rows, b) = {},
           \/ days = GenuinelyNew(base.rows, b)
           \/ days = Has(b.rows) /\ ruling = "PASS"
    PROVE  /\ Sound(Approval(base, op, b, ruling, days))
           /\ Grows(base.rows, Approval(base, op, b, ruling, days).rows)
<1>. DEFINE new == Approval(base, op, b, ruling, days)
            r == Answer(op, b, "APPROVED", ruling)
            m == [op |-> op, basis |-> b.basis]
<1>1. /\ base \in Database /\ Described(base) /\ OneBasis(base) /\ ManifestsBacked(base)
      /\ b \in BatchType /\ base.rows \in Rows
      /\ days \in SUBSET Day /\ days \subseteq Has(b.rows)
  BY BatchesArePrepared, DatabaseFields
  DEF Sound, PreparedPriceBatch, GenuinelyNew, Has
<1>2. /\ new.receipts = base.receipts \cup {r}
      /\ new.manifests = base.manifests \cup {m}
      /\ new.rows = Extended(base.rows, b, days)
      /\ new.link = [d \in Day |-> IF d \in days THEN op ELSE base.link[d]]
  BY <1>1 DEF Approval, Database
<1>3. /\ r \in Receipt /\ r.op = op /\ r.batch = b /\ r.outcome.status = "APPROVED"
      /\ r.outcome.decision = ruling
  BY AnswerIsReceipt DEF Answer
<1>4. /\ new.rows \in Rows /\ Grows(base.rows, new.rows)
      /\ \A d \in Has(b.rows) : new.rows[d] = b.rows[d]
      /\ \A d \in Has(base.rows) : new.rows[d] = base.rows[d]
  BY <1>1, <1>2, StoringAppends
<1>5. new \in Database
  <2>1. m \in [op : Operation, basis : Basis \cup {Unknown}]
    BY <1>1 DEF BatchType
  <2>2. new.link \in [Day -> Operation \cup {NoOp}]
    BY <1>1, <1>2 DEF Database
  <2>. QED
    BY <1>1, <1>2, <1>3, <1>4, <2>1, <2>2 DEF Approval, Database
<1>6. \A q \in base.receipts : q.outcome.status = "APPROVED" =>
        \A d \in Has(q.batch.rows) : d \in Has(base.rows) /\ base.rows[d] = q.batch.rows[d]
  BY <1>1 DEF Described, Has
<1>7. Described(new)
  <2>1. \A q \in new.receipts : q.outcome.status = "APPROVED" =>
            \A d \in Has(q.batch.rows) : new.rows[d] = q.batch.rows[d]
    BY <1>2, <1>3, <1>4, <1>6
  <2>2. ASSUME NEW d \in Day, new.link[d] # NoOp
        PROVE  \E q \in new.receipts :
                  /\ q.op = new.link[d] /\ q.outcome.status = "APPROVED"
                  /\ d \in Has(q.batch.rows)
                  /\ [op |-> q.op, basis |-> q.batch.basis] \in new.manifests
    <3>1. CASE d \in days
      BY <1>1, <1>2, <1>3, <3>1
    <3>2. CASE d \notin days
      BY <1>1, <1>2, <2>2, <3>2 DEF Described
    <3>. QED
      BY <3>1, <3>2
  <2>. QED
    BY <2>1, <2>2 DEF Described
<1>8. /\ ManifestsBacked(new)
      /\ \A d \in days : Known(new, d) = b.basis
      /\ \A d \in Day \ days : Known(new, d) = Known(base, d)
  BY <1>1, ApprovalLinks
<1>9. ASSUME ruling = "PASS", NEW d \in Overlap(base.rows, b)
      PROVE  Known(base, d) = b.basis
  <2>. DEFINE known == KnownBasis(base)
  <2>1. known[d] = Known(base, d)
    BY DEF KnownBasis, Overlap, Has
  <2>2. GuardDecision(base.rows, known, b) = "PASS"
    BY <1>9
  <2>. HIDE DEF known
  <2>3. known[d] = b.basis
    BY <1>1, <2>2, PassRules
  <2>. QED
    BY <2>1, <2>3
<1>10. ASSUME NEW q \in base.receipts,
              q.outcome.status = "APPROVED", q.outcome.decision = "PASS",
              NEW d \in Has(q.batch.rows)
       PROVE  Known(new, d) = q.batch.basis
  <2>1. Known(base, d) = q.batch.basis /\ d \in Day
    BY <1>1, <1>10 DEF OneBasis, Has
  <2>2. CASE d \in days
    <3>1. d \in Has(base.rows) /\ d \in Overlap(base.rows, b)
      BY <1>1, <1>6, <1>10, <2>2 DEF Overlap
    <3>2. ~(\A e \in Has(base.rows) : e < d)
      <4>1. d \in Nat
        BY <2>1, LastDayAssumption DEF Day
      <4>. QED
        BY <3>1, <4>1
    <3>3. ruling = "PASS"
      BY <2>2, <3>2 DEF GenuinelyNew
    <3>. QED
      BY <1>8, <1>9, <2>1, <2>2, <3>1, <3>3
  <2>3. CASE d \notin days
    BY <1>8, <2>1, <2>3
  <2>. QED
    BY <2>2, <2>3
<1>11. ASSUME ruling = "PASS", NEW d \in Has(b.rows)
       PROVE  Known(new, d) = b.basis
  <2>1. CASE d \in days
    BY <1>8, <2>1
  <2>2. CASE d \notin days
    <3>1. d \in Overlap(base.rows, b) /\ d \in Day
      BY <1>11, <2>2 DEF HistoricalInsert, Has
    <3>. QED
      BY <1>8, <1>9, <1>11, <2>2, <3>1
  <2>. QED
    BY <2>1, <2>2
<1>12. OneBasis(new)
  BY <1>2, <1>3, <1>10, <1>11 DEF OneBasis
<1>. QED
  BY <1>4, <1>5, <1>7, <1>8, <1>12 DEF Sound

-----------------------------------------------------------------------------
(***************************************************************************)
(* The transaction.                                                        *)
(***************************************************************************)

\* A database without receipts and provenance is sound.
LEMMA ShadowInvInit == ShadowInit => ShadowInv
<1>. SUFFICES ASSUME ShadowInit PROVE ShadowInv
  OBVIOUS
<1>1. PICK rows \in Legacy :
        db = [rows |-> rows, link |-> [d \in Day |-> NoOp], receipts |-> {},
              manifests |-> {}, staged |-> {}, observations |-> {}]
  BY DEF ShadowInit
<1>2. draft = db /\ txn = Idle
  BY DEF ShadowInit
<1>3. rows \in Rows
  BY BatchesArePrepared
<1>4. /\ db.rows = rows /\ db.link = [d \in Day |-> NoOp] /\ db.receipts = {}
      /\ db.manifests = {} /\ db.staged = {} /\ db.observations = {}
  BY <1>1
<1>5. db \in Database
  BY <1>1, <1>3 DEF Database
<1>6. Described(db) /\ OneBasis(db) /\ ManifestsBacked(db) /\ Chained(db)
  BY <1>4 DEF Described, OneBasis, ManifestsBacked, Chained
<1>7. TxnInv
  BY <1>2 DEF TxnInv, Idle, Grows
<1>. QED
  BY <1>2, <1>4, <1>5, <1>6, <1>7 DEF ShadowInv, Sound

\* One more observation changes neither rows nor provenance nor receipts.
LEMMA AllocationKeepsSound ==
    ASSUME NEW base, Sound(base), NEW o \in Observation
    PROVE  LET new == [base EXCEPT !.observations = @ \cup {o}]
           IN  Sound(new) /\ new.rows = base.rows /\ new.receipts = base.receipts
<1>. DEFINE new == [base EXCEPT !.observations = @ \cup {o}]
<1>1. base \in Database
  BY DEF Sound
<1>2. /\ new.rows = base.rows /\ new.link = base.link /\ new.manifests = base.manifests
      /\ new.receipts = base.receipts /\ new \in Database
  BY <1>1 DEF Database
<1>3. \A d : Known(new, d) = Known(base, d)
  BY <1>2 DEF Known
<1>. HIDE DEF new
<1>4. Described(new) /\ ManifestsBacked(new)
  <2>1. Described(base) /\ ManifestsBacked(base)
    BY DEF Sound
  <2>2. Described(new)
    BY <1>2, <2>1 DEF Described
  <2>. QED
    BY <1>2, <2>1, <2>2 DEF ManifestsBacked
<1>5. OneBasis(new)
  BY <1>2, <1>3 DEF Sound, OneBasis
<1>. USE DEF new
<1>. QED
  BY <1>2, <1>4, <1>5 DEF Sound

\* An observation of a new payload, one generation after the last of its
\* request, extends the chain.
LEMMA AllocationExtendsChain ==
    ASSUME NEW base \in Database, Chained(base), NEW o \in Observation,
           \A p \in base.observations : p.request = o.request => p.payload # o.payload,
           \/ /\ \A p \in base.observations : p.request # o.request
              /\ o.generation = 0 /\ o.revisionOf = NoOp
           \/ \E last \in base.observations :
                /\ last.request = o.request
                /\ \A q \in base.observations :
                        q.request = o.request => q.generation <= last.generation
                /\ o.generation = last.generation + 1 /\ o.revisionOf = last.op
    PROVE  Chained([base EXCEPT !.observations = @ \cup {o}])
<1>. DEFINE new == [base EXCEPT !.observations = @ \cup {o}]
<1>1. new.observations = base.observations \cup {o}
  BY DEF Database
<1>2. \A p \in base.observations : p.generation \in Nat /\ p.op \in Operation
  BY DEF Database, Observation
<1>3. o.generation \in Nat
  BY DEF Observation
<1>4. \A p \in base.observations : p.request = o.request => p.generation # o.generation
  BY <1>2, <1>3
<1>5. /\ o.generation = 0 <=> o.revisionOf = NoOp
      /\ o.generation > 0 =>
            \E p \in base.observations :
                /\ p.request = o.request /\ p.op = o.revisionOf
                /\ p.generation = o.generation - 1
  BY <1>2, <1>3, NoOpIsNone
<1>6. ASSUME NEW q \in new.observations
      PROVE  /\ q.generation = 0 <=> q.revisionOf = NoOp
             /\ q.generation > 0 =>
                    \E p \in new.observations :
                        /\ p.request = q.request /\ p.op = q.revisionOf
                        /\ p.generation = q.generation - 1
             /\ \A p \in new.observations :
                    p.request = q.request
                        /\ (p.generation = q.generation \/ p.payload = q.payload)
                    => p = q
  <2>1. CASE q = o
    BY <1>1, <1>4, <1>5, <2>1
  <2>2. CASE q \in base.observations
    BY <1>1, <1>4, <2>2 DEF Chained
  <2>. QED
    BY <1>1, <2>1, <2>2
<1>. QED
  BY <1>6 DEF Chained

\* A transaction begins on the committed database.
LEMMA BeginKeepsInv ==
    ASSUME ShadowInv, NEW writer \in {"SHADOW", "GUARDED"}, NEW b \in Batches,
           NEW id \in Name \cup {NoOp}, Begin(writer, b, id)
    PROVE  ShadowInv'
<1>1. /\ db' = db /\ draft' = draft
      /\ txn' = [stage |-> "BEGUN", writer |-> writer, batch |-> b, op |-> id]
      /\ txn.stage = "IDLE"
  BY DEF Begin, Idle
<1>2. draft = db
  BY <1>1 DEF ShadowInv, TxnInv
<1>3. txn' \in TxnType /\ txn'.stage = "BEGUN"
  BY <1>1 DEF TxnType, Operation
<1>4. TxnInv'
  BY <1>1, <1>2, <1>3 DEF TxnInv, Grows
<1>5. \A o \in draft'.observations : Receipted(draft', o)
  BY <1>1, <1>2 DEF ShadowInv
<1>. QED
  BY <1>1, <1>4, <1>5 DEF ShadowInv

\* What an allocation adds, and which id it takes.
LEMMA AllocationIsNew ==
    ASSUME ShadowInv, txn.stage = "BEGUN", AllocateOperation
    PROVE  \E o \in Observation :
              /\ o.payload = txn.batch.rows
              /\ txn' = [txn EXCEPT !.stage = "IDENTIFIED", !.op = o.op]
              /\ draft' = [draft EXCEPT !.observations = @ \cup {o}]
              /\ db' = db
              /\ \A p \in draft.observations :
                    p.request = o.request => p.payload # o.payload
              /\ \/ /\ \A p \in draft.observations : p.request # o.request
                    /\ o.generation = 0 /\ o.revisionOf = NoOp
                 \/ \E last \in draft.observations :
                        /\ last.request = o.request
                        /\ \A q \in draft.observations :
                                q.request = o.request => q.generation <= last.generation
                        /\ o.generation = last.generation + 1 /\ o.revisionOf = last.op
<1>. DEFINE request == txn.batch.target
            payload == txn.batch.rows
<1>1. PICK o \in NextObservation(request, payload) : Identified(o.op) /\ Allocated(o)
  BY DEF AllocateOperation
<1>2. txn \in TxnType /\ draft \in Database
  BY DEF ShadowInv, TxnInv, Idle, Sound
<1>3. request \in Day /\ payload \in Rows
  BY <1>2, BatchesArePrepared DEF TxnType, PreparedPriceBatch, BatchType
<1>4. \A p \in Of(request) : /\ p \in draft.observations /\ p.request = request
                             /\ p.generation \in Nat /\ p.op \in Operation
  BY <1>2 DEF Of, Database, Observation
<1>5. \/ /\ Of(request) = {}
         /\ o = [op |-> <<request, payload, 0>>, request |-> request, payload |-> payload,
                 generation |-> 0, revisionOf |-> NoOp]
      \/ \E last \in Of(request) :
            /\ \A q \in Of(request) : q.generation <= last.generation
            /\ o = [op |-> <<request, payload, last.generation + 1>>, request |-> request,
                    payload |-> payload, generation |-> last.generation + 1,
                    revisionOf |-> last.op]
  BY DEF NextObservation
<1>6. o \in Observation /\ o.request = request /\ o.payload = payload
  <2>1. CASE /\ Of(request) = {}
             /\ o = [op |-> <<request, payload, 0>>, request |-> request,
                     payload |-> payload, generation |-> 0, revisionOf |-> NoOp]
    BY <1>3, <2>1 DEF Observation, Operation
  <2>2. ASSUME NEW last \in Of(request),
               o = [op |-> <<request, payload, last.generation + 1>>, request |-> request,
                    payload |-> payload, generation |-> last.generation + 1,
                    revisionOf |-> last.op]
        PROVE  o \in Observation /\ o.request = request /\ o.payload = payload
    <3>1. last.generation + 1 \in Nat /\ last.op \in Operation
      BY <1>4
    <3>. QED
      BY <1>3, <2>2, <3>1 DEF Observation, Operation
  <2>. QED
    BY <1>5, <2>1, <2>2
<1>7. \A p \in draft.observations : p.request = request => p \in Of(request)
  BY DEF Of
<1>8. \A p \in draft.observations : p.request = o.request => p.payload # o.payload
  BY <1>6, <1>7 DEF AllocateOperation
<1>9. \/ /\ \A p \in draft.observations : p.request # o.request
         /\ o.generation = 0 /\ o.revisionOf = NoOp
      \/ \E last \in draft.observations :
            /\ last.request = o.request
            /\ \A q \in draft.observations :
                    q.request = o.request => q.generation <= last.generation
            /\ o.generation = last.generation + 1 /\ o.revisionOf = last.op
  BY <1>4, <1>5, <1>6, <1>7
<1>. QED
  BY <1>1, <1>6, <1>8, <1>9 DEF Identified, Allocated

\* Identifying the operation drafts nothing but an observation of its own.
LEMMA IdentifyKeepsInv ==
    ASSUME ShadowInv, Identify
    PROVE  ShadowInv'
<1>1. /\ txn \in TxnType /\ txn.stage = "BEGUN" /\ draft = db
      /\ draft \in Database /\ Sound(draft) /\ Chained(draft)
  BY DEF ShadowInv, TxnInv, Idle, Sound, Identify
<1>2. \A o \in draft.observations : Receipted(draft, o)
  BY <1>1 DEF ShadowInv
<1>3. ASSUME NEW op \in Operation, Identified(op), UNCHANGED <<db, draft>>
      PROVE  ShadowInv'
  <2>1. txn' \in TxnType /\ txn'.stage = "IDENTIFIED" /\ txn'.op \in Operation
    BY <1>1, <1>3 DEF Identified, TxnType
  <2>2. TxnInv'
    BY <1>1, <1>3, <2>1 DEF TxnInv, Grows
  <2>. QED
    BY <1>1, <1>2, <1>3, <2>2 DEF ShadowInv
<1>4. CASE txn.op # NoOp /\ Identified(txn.op) /\ UNCHANGED <<db, draft>>
  BY <1>1, <1>3, <1>4 DEF TxnType
<1>5. CASE ReuseOperation
  BY <1>1, <1>3, <1>5 DEF ReuseOperation, Of, Database, Observation
<1>6. CASE AllocateOperation
  <2>1. PICK o \in Observation :
          /\ o.payload = txn.batch.rows
          /\ txn' = [txn EXCEPT !.stage = "IDENTIFIED", !.op = o.op]
          /\ draft' = [draft EXCEPT !.observations = @ \cup {o}]
          /\ db' = db
          /\ \A p \in draft.observations : p.request = o.request => p.payload # o.payload
          /\ \/ /\ \A p \in draft.observations : p.request # o.request
                /\ o.generation = 0 /\ o.revisionOf = NoOp
             \/ \E last \in draft.observations :
                    /\ last.request = o.request
                    /\ \A q \in draft.observations :
                            q.request = o.request => q.generation <= last.generation
                    /\ o.generation = last.generation + 1 /\ o.revisionOf = last.op
    BY <1>1, <1>6, AllocationIsNew
  <2>2. o.op \in Operation
    BY DEF Observation
  <2>3. /\ txn' \in TxnType /\ txn'.stage = "IDENTIFIED" /\ txn'.op = o.op
        /\ txn'.batch = txn.batch
    BY <1>1, <2>1, <2>2 DEF TxnType
  <2>4. /\ Sound(draft') /\ draft'.rows = draft.rows /\ draft'.receipts = draft.receipts
        /\ draft'.observations = draft.observations \cup {o}
    BY <1>1, <2>1, AllocationKeepsSound DEF Database
  <2>5. Chained(draft')
    BY <1>1, <2>1, AllocationExtendsChain
  <2>6. \A q \in draft'.observations : Receipted(draft', q) \/ Undecided(q)'
    BY <1>2, <2>1, <2>3, <2>4 DEF Receipted, Undecided
  <2>7. TxnInv'
    BY <1>1, <2>1, <2>2, <2>3, <2>4 DEF TxnInv, Grows
  <2>. QED
    BY <2>1, <2>4, <2>5, <2>6, <2>7 DEF ShadowInv
<1>. QED
  BY <1>4, <1>5, <1>6 DEF Identify

\* What a decision drafts: a rejection, or the approval of a batch that neither
\* revises nor fills in, upserted whole only where the guard passed.
DecisionKind(ruling) ==
    \/ \E stages \in BOOLEAN :
            draft' = Rejection(draft, txn.op, txn.batch, ruling, stages)
    \/ /\ HistoricalInsert(draft.rows, txn.batch) = {}
       /\ Revised(draft.rows, txn.batch) = {}
       /\ \E days \in {GenuinelyNew(draft.rows, txn.batch), Has(txn.batch.rows)} :
            /\ days = GenuinelyNew(draft.rows, txn.batch) \/ ruling = "PASS"
            /\ draft' = Approval(draft, txn.op, txn.batch, ruling, days)

\* Both writers decide in one of these ways, by the guard's decision.
LEMMA DecisionsHaveKinds ==
    ASSUME ShadowInv, DecideBatch
    PROVE  DecisionKind(GuardDecision(draft.rows, KnownBasis(draft), txn.batch))
<1>. DEFINE known == KnownBasis(draft)
            ruling == GuardDecision(draft.rows, known, txn.batch)
            admission == OperationalAdmission(draft.rows, known, txn.batch)
<1>1. txn.batch \in BatchType /\ draft.rows \in Rows
  BY BatchesArePrepared
  DEF DecideBatch, ShadowInv, TxnInv, TxnType, Idle, PreparedPriceBatch, Sound, Database
<1>2. \A stages \in BOOLEAN : Rejected(ruling, stages) => DecisionKind(ruling)
  BY DEF Rejected, Rejection, Answer, DecisionKind
<1>3. \A days : Approved(ruling, days)
                => draft' = Approval(draft, txn.op, txn.batch, ruling, days)
  BY DEF Approved, Approval, Answer, Extended
<1>4. CASE DecideShadow
  <2>1. CASE /\ admission \in WriteApproved
             /\ Approved(ruling, GenuinelyNew(draft.rows, txn.batch))
    BY <1>3, <2>1, AdmissionRules DEF DecisionKind
  <2>2. CASE /\ admission \notin WriteApproved
             /\ Rejected(ruling, admission \in RequiresStaging)
    <3>1. CASE admission \in RequiresStaging
      <4>1. (admission \in RequiresStaging) = TRUE
        BY <3>1
      <4>2. Rejected(ruling, TRUE)
        BY <2>2, <4>1, Zenon
      <4>. QED
        BY <1>2, <4>2
    <3>2. CASE admission \notin RequiresStaging
      <4>1. (admission \in RequiresStaging) = FALSE
        BY <3>2
      <4>2. Rejected(ruling, FALSE)
        BY <2>2, <4>1, Zenon
      <4>. QED
        BY <1>2, <4>2
    <3>. QED
      BY <3>1, <3>2
  <2>. QED
    BY <1>4, <2>1, <2>2 DEF DecideShadow
<1>5. CASE DecideGuarded
  <2>1. CASE Rejected(ruling, TRUE) \/ Rejected(ruling, FALSE)
    BY <1>2, <2>1
  <2>2. CASE /\ Revised(draft.rows, txn.batch) = {} /\ ruling = "PASS"
             /\ Approved(ruling, Has(txn.batch.rows))
    <3>1. HistoricalInsert(draft.rows, txn.batch) = {}
      BY <1>1, <2>2, PassRules
    <3>. QED
      BY <1>3, <2>2, <3>1 DEF DecisionKind
  <2>. QED
    BY <1>5, <2>1, <2>2 DEF DecideGuarded
<1>. QED
  BY <1>4, <1>5 DEF DecideBatch

\* A decision leaves a draft that may be committed.
LEMMA DecideKeepsInv ==
    ASSUME ShadowInv, DecideBatch
    PROVE  ShadowInv'
<1>. DEFINE ruling == GuardDecision(draft.rows, KnownBasis(draft), txn.batch)
            op == txn.op
            b == txn.batch
            Drafted ==
                /\ Sound(draft') /\ Grows(draft.rows, draft'.rows)
                /\ draft'.observations = draft.observations
                /\ \E status :
                    draft'.receipts = draft.receipts \cup {Answer(op, b, status, ruling)}
<1>1. /\ txn \in TxnType /\ txn.stage = "IDENTIFIED" /\ op \in Operation /\ b \in Batches
      /\ draft.rows = db.rows /\ Sound(draft) /\ draft \in Database
  BY DEF DecideBatch, ShadowInv, TxnInv, TxnType, Idle, Sound
<1>2. ruling \in Decisions
  BY DEF GuardDecision, Decisions
<1>3. /\ db' = db /\ txn' = [txn EXCEPT !.stage = "DECIDED"]
      /\ \A r \in draft.receipts : r.op # op
  BY DEF DecideBatch, ReceiptsOf
<1>4. /\ txn' \in TxnType /\ txn'.stage = "DECIDED" /\ txn'.op = op
  BY <1>1, <1>3 DEF TxnType
<1>5. DecisionKind(ruling)
  BY DecisionsHaveKinds
<1>. HIDE DEF ruling
<1>6. Drafted
  <2>1. ASSUME NEW stages \in BOOLEAN,
               draft' = Rejection(draft, op, b, ruling, stages)
        PROVE  Drafted
    <3>1. Sound(draft') /\ draft'.rows = draft.rows
      BY <1>1, <1>2, <2>1, RejectionKeepsSound
    <3>2. /\ draft'.observations = draft.observations
          /\ draft'.receipts = draft.receipts \cup {Answer(op, b, "REJECTED", ruling)}
      BY <1>1, <2>1 DEF Rejection, Database
    <3>. QED
      BY <3>1, <3>2 DEF Grows
  <2>2. ASSUME HistoricalInsert(draft.rows, b) = {}, Revised(draft.rows, b) = {},
               NEW days \in {GenuinelyNew(draft.rows, b), Has(b.rows)},
               days = GenuinelyNew(draft.rows, b) \/ ruling = "PASS",
               draft' = Approval(draft, op, b, ruling, days)
        PROVE  Drafted
    <3>1. Sound(draft') /\ Grows(draft.rows, draft'.rows)
      BY <1>1, <1>2, <1>3, <2>2, ApprovalKeepsSound DEF ruling
    <3>2. /\ draft'.observations = draft.observations
          /\ draft'.receipts = draft.receipts \cup {Answer(op, b, "APPROVED", ruling)}
      BY <1>1, <2>2 DEF Approval, Database
    <3>. QED
      BY <3>1, <3>2
  <2>. QED
    BY <1>5, <2>1, <2>2 DEF DecisionKind
<1>7. Chained(draft')
  BY <1>6 DEF ShadowInv, Chained
<1>8. ASSUME NEW o \in draft'.observations
      PROVE  Receipted(draft', o)
  <2>1. PICK status :
            draft'.receipts = draft.receipts \cup {Answer(op, b, status, ruling)}
    BY <1>6
  <2>2. CASE Receipted(draft, o)
    BY <2>1, <2>2 DEF Receipted
  <2>3. CASE Undecided(o)
    <3>1. LET r == Answer(op, b, status, ruling)
          IN  r.op = o.op /\ r.batch.rows = o.payload
      BY <2>3 DEF Undecided, Answer
    <3>. QED
      BY <2>1, <3>1 DEF Receipted
  <2>. QED
    BY <1>6, <2>2, <2>3 DEF ShadowInv
<1>9. TxnInv'
  BY <1>1, <1>3, <1>4, <1>6 DEF TxnInv
<1>. QED
  BY <1>3, <1>6, <1>7, <1>8, <1>9 DEF ShadowInv

\* A commit, also that of a replayed receipt, publishes a finished draft.
LEMMA PublishKeepsInv ==
    ASSUME ShadowInv, Replay \/ Commit
    PROVE  ShadowInv'
<1>1. db' = draft /\ draft' = draft /\ txn' = Idle
  BY DEF Replay, Commit
<1>2. \A o \in draft.observations : Receipted(draft, o)
  <2>1. CASE Replay
    BY <2>1 DEF Replay, ReceiptsOf, ShadowInv, Receipted, Undecided
  <2>2. CASE Commit
    BY <2>2 DEF Commit, ShadowInv, Undecided
  <2>. QED
    BY <2>1, <2>2
<1>3. TxnInv'
  BY <1>1 DEF TxnInv, Idle, Grows
<1>. QED
  BY <1>1, <1>2, <1>3 DEF ShadowInv

\* A rollback leaves the committed database.
LEMMA FailKeepsInv ==
    ASSUME ShadowInv, Fail
    PROVE  ShadowInv'
<1>1. db' = db /\ draft' = db /\ txn' = Idle
  BY DEF Fail
<1>2. TxnInv'
  BY <1>1 DEF TxnInv, Idle, Grows
<1>. QED
  BY <1>1, <1>2 DEF ShadowInv

\* No step of either writer, and no failure, breaks the invariant.
LEMMA ShadowInvStep == ShadowInv /\ [ShadowNext]_shadowVars => ShadowInv'
<1>. SUFFICES ASSUME ShadowInv, [ShadowNext]_shadowVars PROVE ShadowInv'
  OBVIOUS
<1>1. ASSUME NEW writer \in {"SHADOW", "GUARDED"}, NEW b \in Batches,
             NEW id \in Name \cup {NoOp}, Begin(writer, b, id)
      PROVE  ShadowInv'
  BY <1>1, BeginKeepsInv
<1>2. CASE Identify
  BY <1>2, IdentifyKeepsInv
<1>3. CASE Replay \/ Commit
  BY <1>3, PublishKeepsInv
<1>4. CASE DecideBatch
  BY <1>4, DecideKeepsInv
<1>5. CASE Fail
  BY <1>5, FailKeepsInv
<1>6. CASE UNCHANGED shadowVars
  BY <1>6 DEF shadowVars, ShadowInv, TxnInv, Undecided
<1>. QED
  BY <1>1, <1>2, <1>3, <1>4, <1>5, <1>6 DEF ShadowNext

\* The invariant holds in every state of every behaviour.
LEMMA ShadowInvHolds == ShadowSpec => []ShadowInv
  BY ShadowInvInit, ShadowInvStep, PTL DEF ShadowSpec

-----------------------------------------------------------------------------
\* Whatever is submitted to either writer, in any order and with any failure,
\* the stored history only grows at its end.
THEOREM HistoryOnlyGrows == ShadowSpec => HistoryGrowsAtEnd
<1>1. ShadowInv /\ [ShadowNext]_shadowVars
      => [\A d \in Day : db'.rows[d] # db.rows[d] =>
            db.rows[d] = Absent /\ \A e \in Has(db.rows) : e < d]_shadowVars
  <2>. SUFFICES ASSUME ShadowInv, ShadowNext
                PROVE  Grows(db.rows, db'.rows)
    BY DEF Grows
  <2>1. db' = db \/ db' = draft
    BY DEF ShadowNext, Begin, Identify, Identified, ReuseOperation, AllocateOperation,
           Allocated, Replay, DecideBatch, Commit, Fail
  <2>. QED
    BY <2>1 DEF ShadowInv, TxnInv, Grows
<1>. QED
  BY <1>1, ShadowInvHolds, PTL DEF ShadowSpec, HistoryGrowsAtEnd

\* Receipts, rows and provenance of the committed database agree, for any number
\* of operations, replays and rollbacks.
THEOREM ReceiptsAgree == ShadowSpec => []ReceiptsDescribeHistory
<1>1. ShadowInv => ReceiptsDescribeHistory
  BY DEF ShadowInv, Sound, Described, ReceiptsDescribeHistory
<1>. QED
  BY <1>1, ShadowInvHolds, PTL

\* Where the guard has passed, the days of the batch keep its basis for ever.
THEOREM BasisIsKept == ShadowSpec => []PassKeepsOneBasis
<1>1. ShadowInv => PassKeepsOneBasis
  BY DEF ShadowInv, Sound, OneBasis, PassKeepsOneBasis
<1>. QED
  BY <1>1, ShadowInvHolds, PTL

\* The generations of a request form one chain, each with its receipt.
THEOREM GenerationsStayChained == ShadowSpec => []GenerationsFormOneChain
<1>1. ShadowInv => GenerationsFormOneChain
  BY DEF ShadowInv, Chained, Receipted, GenerationsFormOneChain
<1>. QED
  BY <1>1, ShadowInvHolds, PTL
=============================================================================
